---- MODULE Spec2Model ----
(***************************************************************************)
(* FreshRoles matching core: the Deduplicator (matching/dedup.py), the     *)
(* KeywordScorer and RecencyScorer (matching/keyword.py) and the Scorer    *)
(* pipeline (matching/scorer.py).                                           *)
(*                                                                         *)
(* Strings are sequences of one-character strings, so that lower-casing,   *)
(* punctuation stripping, whole-word matching and key formatting are       *)
(* computed character by character as the code does.  An optional string   *)
(* that is None is written <<>>: every use the code makes of one           *)
(* (`if x`, `x or ""`) treats None and "" alike.  Floats are exact         *)
(* rationals [n |-> numerator, d |-> denominator > 0].                     *)
(***************************************************************************)
EXTENDS Integers, Sequences, FiniteSets, TLC

VARIABLES
    similarity_threshold,   \* Deduplicator.similarity_threshold (a rational)
    job_exists_fn,          \* Deduplicator.job_exists_fn: [bound |-> it is not None, ids |-> the ids in the database]
    seen_ids,               \* Deduplicator._seen_ids
    seen_hashes,            \* Deduplicator._seen_hashes: fuzzy key -> fingerprint
    passed,                 \* history: the identity tuples is_duplicate returned False for since the last reset
    accepted,               \* history: the postings is_duplicate returned False for since the last reset
    dlast,                  \* the last Deduplicator operation: its calls, their results and what they asked job_exists_fn
    fresh,                  \* a Deduplicator constructed at the last reset(), given the same calls
    profile,                \* Scorer.profile
    embedding_provider,     \* Scorer.embedding_provider: its class and current behaviour
    profile_embedding,      \* Scorer._profile_embedding: "None", "empty" or "vec"
    slast,                  \* the last Scorer operation: its inputs, results and the calls it made
    profile_embeds,         \* history: how often embed was called with the profile text (up to MaxEmbeds)
    tasks,                  \* the Scorer.score coroutines in flight on one Scorer: where each one is
    threads,                \* the threads inside is_duplicate of one Deduplicator: where each one is
    http,                   \* one HTTPClient with its RateLimiter, and the HTTPClient.get call in flight
    flast                   \* the last call of a module-level function of dedup.py: its arguments and result

dvars == <<similarity_threshold, job_exists_fn, seen_ids, seen_hashes, passed, accepted, dlast, fresh>>
svars == <<profile, embedding_provider, profile_embedding, slast, profile_embeds>>
fvars == <<flast>>
cvars == <<tasks, threads, http>>
vars == <<similarity_threshold, job_exists_fn, seen_ids, seen_hashes, passed, accepted, dlast, fresh,
          profile, embedding_provider, profile_embedding, slast, profile_embeds, flast, tasks, threads, http>>

(***************************************************************************)
(* Bounds of the model.                                                    *)
(***************************************************************************)
MaxList == 2        \* longest list handed to dedupe
MaxBatch == 2       \* longest list handed to score_batch
MaxEmbeds == 2      \* profile_embeds stops counting here
MaxText == 3        \* longest text given to normalize_text
MaxBits == 3        \* widest fingerprint, short of hash_bits, given to simhash_similarity
MaxWords == 3       \* most whitespace-separated tokens in a text given to simhash
MaxTasks == 2       \* Scorer.score coroutines in flight together
MaxThreads == 2     \* threads inside Deduplicator.is_duplicate together
MaxGets == 2        \* HTTPClient.get calls made on one client

(***************************************************************************)
(* Rationals.                                                              *)
(***************************************************************************)
RECURSIVE GCD(_, _)
GCD(a, b) == IF b = 0 THEN a ELSE GCD(b, a % b)
Abs(n) == IF n < 0 THEN -n ELSE n
\* n/d in lowest terms
Rat(n, d) == LET g == GCD(Abs(n), d) IN [n |-> n \div g, d |-> d \div g]
RAdd(a, b) ==
    LET l == (a.d \div GCD(a.d, b.d)) * b.d
    IN Rat(a.n * (l \div a.d) + b.n * (l \div b.d), l)
RNeg(a) == [n |-> -a.n, d |-> a.d]
RSub(a, b) == RAdd(a, RNeg(b))
RMul(a, b) ==
    LET x == Rat(a.n, b.d)
        y == Rat(b.n, a.d)
    IN Rat(x.n * y.n, x.d * y.d)
RLeq(a, b) == a.n * b.d <= b.n * a.d
RLt(a, b) == a.n * b.d < b.n * a.d
REq(a, b) == a.n * b.d = b.n * a.d
RMin(a, b) == IF RLeq(a, b) THEN a ELSE b
RZero == Rat(0, 1)
ROne == Rat(1, 1)
RHalf == Rat(1, 2)
In01(a) == RLeq(RZero, a) /\ RLeq(a, ROne)

(***************************************************************************)
(* Characters and the str / re primitives the code uses.                   *)
(***************************************************************************)
UpperChars == <<"A","B","C","D","E","F","G","H","I","J","K","L","M",
                "N","O","P","Q","R","S","T","U","V","W","X","Y","Z">>
LowerChars == <<"a","b","c","d","e","f","g","h","i","j","k","l","m",
                "n","o","p","q","r","s","t","u","v","w","x","y","z">>
Digits == {"0","1","2","3","4","5","6","7","8","9"}
Range(s) == {s[i] : i \in 1..Len(s)}

\* the function x |-> Op(x) on the finite set S, tabulated once
Tabulate(Op(_), S) ==
    LET RECURSIVE T(_)
        T(R) == IF R = {} THEN [x \in {} |-> {}]
                ELSE LET x == CHOOSE y \in R : TRUE
                     IN (x :> Op(x)) @@ T(R \ {x})
    IN T(S)

\* \w of the re module, on the model's ASCII characters
IsWordChar(c) == c \in Range(UpperChars) \cup Range(LowerChars) \cup Digits \cup {"_"}
\* \s of the re module
IsSpace(c) == c \in {" ", "\t", "\n"}

\* str.lower() on one character
LowerChar(c) ==
    IF \E i \in 1..Len(UpperChars) : UpperChars[i] = c
    THEN LowerChars[CHOOSE i \in 1..Len(UpperChars) : UpperChars[i] = c]
    ELSE c
\* str.lower()
Lower(s) == [i \in 1..Len(s) |-> LowerChar(s[i])]

\* re.sub(r"[^\w\s]", "", text)
RECURSIVE StripPunct(_)
StripPunct(s) ==
    IF s = <<>> THEN <<>>
    ELSE IF IsWordChar(Head(s)) \/ IsSpace(Head(s))
         THEN <<Head(s)>> \o StripPunct(Tail(s))
         ELSE StripPunct(Tail(s))

\* re.sub(r"\s+", " ", text): every maximal run of whitespace becomes one space
RECURSIVE CollapseSpace(_)
CollapseSpace(s) ==
    IF s = <<>> THEN <<>>
    ELSE IF IsSpace(Head(s))
         THEN IF Tail(s) # <<>> /\ IsSpace(Head(Tail(s)))
              THEN CollapseSpace(Tail(s))
              ELSE <<" ">> \o CollapseSpace(Tail(s))
         ELSE <<Head(s)>> \o CollapseSpace(Tail(s))

\* str.lstrip()
RECURSIVE LStrip(_)
LStrip(s) == IF s # <<>> /\ IsSpace(Head(s)) THEN LStrip(Tail(s)) ELSE s
\* str.rstrip()
RECURSIVE RStrip(_)
RStrip(s) ==
    IF s # <<>> /\ IsSpace(s[Len(s)]) THEN RStrip(SubSeq(s, 1, Len(s) - 1)) ELSE s
\* str.strip()
Strip(s) == RStrip(LStrip(s))

\* a faulty normalize_text: the final .strip() is missing
normalize_text_without_strip(text) == CollapseSpace(StripPunct(Lower(text)))

normalize_text(text) == Strip(CollapseSpace(StripPunct(Lower(text))))

\* str.split(): the maximal runs of non-whitespace characters, in order
RECURSIVE SplitAcc(_, _)
SplitAcc(s, cur) ==
    IF s = <<>> THEN (IF cur = <<>> THEN <<>> ELSE <<cur>>)
    ELSE IF IsSpace(Head(s))
         THEN (IF cur = <<>> THEN <<>> ELSE <<cur>>) \o SplitAcc(Tail(s), <<>>)
         ELSE SplitAcc(Tail(s), cur \o <<Head(s)>>)
Split(s) == SplitAcc(s, <<>>)

\* " ".join(parts)
RECURSIVE JoinSpace(_)
JoinSpace(parts) ==
    IF parts = <<>> THEN <<>>
    ELSE IF Len(parts) = 1 THEN parts[1]
    ELSE parts[1] \o <<" ">> \o JoinSpace(Tail(parts))

\* `needle in hay` on strings
Contains(hay, needle) ==
    \E i \in 1..(Len(hay) - Len(needle) + 1) :
        SubSeq(hay, i, i + Len(needle) - 1) = needle

\* \b of the re module at offset p (0..Len(s)) of s: a word character on exactly one side
WordBoundary(s, p) ==
    LET before == p >= 1 /\ IsWordChar(s[p])
        after == p < Len(s) /\ IsWordChar(s[p + 1])
    IN before # after

\* re.compile(rf"\b{re.escape(kw)}\b", re.I).search(text) is not None
PatternSearch(kw, text) ==
    \E i \in 1..(Len(text) - Len(kw) + 1) :
        /\ WordBoundary(text, i - 1)
        /\ Lower(SubSeq(text, i, i + Len(kw) - 1)) = Lower(kw)
        /\ WordBoundary(text, i - 1 + Len(kw))

\* re.escape(kw): a backslash before every character special to the re module
ReSpecialChars ==
    {"(", ")", "[", "]", "{", "}", "?", "*", "+", "-", "|", "^", "$", "\\", ".", "&",
     "~", "#", " "}
RECURSIVE re_escape(_)
re_escape(s) ==
    IF s = <<>> THEN <<>>
    ELSE (IF Head(s) \in ReSpecialChars THEN <<"\\", Head(s)>> ELSE <<Head(s)>>)
         \o re_escape(Tail(s))

\* pattern.pattern of re.compile(rf"\b{re.escape(kw)}\b", re.I): the text the
\* reasons of the keyword scorer quote
PatternSource(kw) == <<"\\", "b">> \o re_escape(kw) \o <<"\\", "b">>

(***************************************************************************)
(* models/enums.py and models/job.py                                       *)
(***************************************************************************)
\* ATSType values used by the model's postings
GREENHOUSE == <<"g","r","e","e","n","h","o","u","s","e">>
LEVER == <<"l","e","v","e","r">>
\* RemoteType values
RemoteType == {"onsite", "hybrid", "remote", "unknown"}

\* JobPosting(...): the fields the matching core reads.  posted_at is kept as the
\* posting's age in hours at scoring time (now - posted_at); has_posted_at is
\* FALSE for posted_at = None.
JobPosting(company, system, job_id, title, location, remote, desc, reqs, dept, has_posted, age) ==
    [company |-> company, source_system |-> system, source_job_id |-> job_id,
     title |-> title, location |-> location, remote_type |-> remote,
     description_text |-> desc, requirements |-> reqs, department |-> dept,
     has_posted_at |-> has_posted, age_hours |-> age]

J1 == JobPosting(<<"a">>, GREENHOUSE, <<"1">>, <<"D","e","v">>, <<>>, "unknown",
                 <<"p","y"," ","b","e">>, <<>>, <<>>, TRUE, 1)
\* the identity of J1, every other field different; matches must-not phrases
J2 == JobPosting(<<"a">>, GREENHOUSE, <<"1">>, <<"S","r"," ","D","e","v">>,
                 <<"S","F",","," ","C","A">>, "remote",
                 <<"p","y">>, <<<<"u","x">>>>, <<>>, FALSE, 0)
\* the text of J1 up to case, punctuation and spacing
J3 == JobPosting(<<"a">>, GREENHOUSE, <<"2">>, <<"D","E","V",",">>, <<>>, "unknown",
                 <<"P","y"," "," ","b","e",".">>, <<>>, <<>>, TRUE, 600)
\* the fuzzy key of J1, simhash similarity to J1 exactly 0.75
J4 == JobPosting(<<"a">>, GREENHOUSE, <<"3">>, <<"D","e","v">>, <<>>, "hybrid",
                 <<"b","e">>, <<<<"u","x">>>>, <<>>, TRUE, 720)
\* the fuzzy key of J1, simhash similarity to J1 0.84375
J5 == JobPosting(<<"b">>, LEVER, <<"1">>, <<"D","e","v">>, <<>>, "remote",
                 <<"p","y">>, <<>>, <<"a","i">>, TRUE, -5)
\* another fuzzy key; "usr" contains "sr" but not as a whole word
J6 == JobPosting(<<"b">>, LEVER, <<"2">>, <<"Q","A">>, <<"N","Y">>, "onsite",
                 <<"u","s","r"," ","g","o">>, <<>>, <<>>, FALSE, 0)
\* role, both must-have keywords, preferred location and remote preference
J7 == JobPosting(<<"b">>, LEVER, <<"7">>, <<"D","e","v">>,
                 <<"S","F",","," ","C","A">>, "remote",
                 <<"p","y"," ","b","e">>, <<>>, <<>>, TRUE, 180)
\* two postings of different companies and job ids, with a ':' in a field
K1 == JobPosting(<<"a">>, LEVER, <<"l","e","v","e","r",":","1">>, <<"D","e","v">>, <<>>,
                 "unknown", <<"p","y">>, <<>>, <<>>, FALSE, 0)
K2 == JobPosting(<<"a",":","l","e","v","e","r">>, LEVER, <<"1">>, <<"Q","A">>, <<>>,
                 "unknown", <<"g","o">>, <<>>, <<>>, FALSE, 0)
\* postings are named in the state; Posting gives the JobPosting behind a name
Jobs == {"J1", "J2", "J3", "J4", "J5", "J6", "J7"}

\* the postings of tests/test_matching/test_scorer.py test_dedupe_list:
\* "Engineer i" of TestCo, i = 0..4, and the list of the five plus a copy of the first
TestJob(i) ==
    LET digit == <<"0","1","2","3","4">>[i + 1]
    IN JobPosting(<<"T","e","s","t","C","o">>, GREENHOUSE, <<digit>>,
                  <<"E","n","g","i","n","e","e","r"," ",digit>>, <<>>, "unknown",
                  <<>>, <<>>, <<>>, FALSE, 0)
TestList == <<"T0", "T1", "T2", "T3", "T4", "T0">>
AllJobs == Jobs \cup Range(TestList) \cup {"K1", "K2"}
Posting ==
    [j \in AllJobs |->
        CASE j = "J1" -> J1 [] j = "J2" -> J2 [] j = "J3" -> J3 [] j = "J4" -> J4
          [] j = "J5" -> J5 [] j = "J6" -> J6 [] j = "J7" -> J7
          [] j = "T0" -> TestJob(0) [] j = "T1" -> TestJob(1) [] j = "T2" -> TestJob(2)
          [] j = "T3" -> TestJob(3) [] j = "T4" -> TestJob(4)
          [] j = "K1" -> K1 [] j = "K2" -> K2]

\* the key string of JobPosting.id and of Deduplicator._get_exact_key
IdentityKey(job) ==
    job.company \o <<":">> \o job.source_system \o <<":">> \o job.source_job_id

\* sha256(key.encode()).hexdigest()[:16], tabulated for the model's key strings
sha256_hex16(key) ==
    CASE key = <<"a",":","g","r","e","e","n","h","o","u","s","e",":","1">> -> "e47a66bef9946dcd"
      [] key = <<"a",":","g","r","e","e","n","h","o","u","s","e",":","2">> -> "aa9954a8412c849e"
      [] key = <<"a",":","g","r","e","e","n","h","o","u","s","e",":","3">> -> "35e5b012e0d887a8"
      [] key = <<"b",":","l","e","v","e","r",":","1">> -> "eae737de316d9402"
      [] key = <<"b",":","l","e","v","e","r",":","2">> -> "6e21f973f0ec759a"
      [] key = <<"b",":","l","e","v","e","r",":","7">> -> "6001d06060ada738"
      [] key = <<"a",":","l","e","v","e","r",":","l","e","v","e","r",":","1">> -> "d30c5a44a53ea27c"
      [] key = <<"T","e","s","t","C","o",":","g","r","e","e","n","h","o","u","s","e",":","0">> -> "0f98a13ce818f762"
      [] key = <<"T","e","s","t","C","o",":","g","r","e","e","n","h","o","u","s","e",":","1">> -> "29d657ea0c2c5850"
      [] key = <<"T","e","s","t","C","o",":","g","r","e","e","n","h","o","u","s","e",":","2">> -> "25ad4ae2dc2e3218"
      [] key = <<"T","e","s","t","C","o",":","g","r","e","e","n","h","o","u","s","e",":","3">> -> "6fe50acd362f80ed"
      [] key = <<"T","e","s","t","C","o",":","g","r","e","e","n","h","o","u","s","e",":","4">> -> "2c0a40bdea9ae528"

\* a faulty JobPosting.id: the title is hashed along with the three fields
JobIdWithTitle(job) == <<sha256_hex16(IdentityKey(job)), job.title>>

\* JobPosting.id
JobId(job) == sha256_hex16(IdentityKey(job))

\* JobPosting.get_searchable_text
get_searchable_text(job) ==
    JoinSpace(<<job.title>>
              \o (IF job.description_text # <<>> THEN <<job.description_text>> ELSE <<>>)
              \o job.requirements
              \o (IF job.department # <<>> THEN <<job.department>> ELSE <<>>))

(***************************************************************************)
(* matching/dedup.py: simhash                                              *)
(***************************************************************************)
hash_bits == 64

\* the bits i < hash_bits set in int(md5(word.encode()).hexdigest(), 16), tabulated
\* for the words of the model's postings
md5_low64(word) ==
    CASE word = <<"d","e","v">> -> {1,7,8,10,12,14,18,19,20,21,22,23,24,25,26,28,29,30,34,37,38,39,45,48,49,51,52,56,57,60,61}
      [] word = <<"p","y">> -> {1,2,6,7,8,10,11,13,15,17,18,21,22,24,26,29,30,37,38,39,42,47,48,50,54,55,56,57,58,60}
      [] word = <<"b","e">> -> {0,3,5,9,11,15,20,24,25,29,30,32,33,34,36,38,40,42,47,51,54,55,57,58,59,60}
      [] word = <<"u","x">> -> {2,5,6,7,10,12,14,17,20,22,24,29,31,35,39,41,42,44,47,48,49,53,56,57,60,61,62,63}
      [] word = <<"a","i">> -> {0,3,8,11,12,18,25,29,30,31,33,38,39,41,42,43,44,47,48,49,50,51,52,57,58,59,60,61,63}
      [] word = <<"s","r">> -> {12,16,18,19,21,23,24,27,33,38,39,40,43,44,45,48,51,53,55,58,60,61,62}
      [] word = <<"q","a">> -> {0,1,3,5,6,7,9,11,12,17,19,21,23,24,25,26,31,32,33,34,35,38,40,43,45,47,49,51,52,56,59,60}
      [] word = <<"u","s","r">> -> {0,5,6,8,10,12,13,14,15,18,19,22,23,24,25,26,27,29,31,32,33,34,37,39,42,44,45,46,48,49,50,51,52,53,54,55,57,58}
      [] word = <<"g","o">> -> {0,1,3,5,6,9,11,12,15,19,21,23,24,26,28,29,30,33,35,36,40,41,43,45,47,48,49,50,51,53,54,56,57,58,60,62}
      [] word = <<"e","n","g","i","n","e","e","r">> -> {0,1,4,5,8,12,13,16,19,22,28,30,32,33,34,35,37,38,40,41,48,49,50,53,54,58,59,61}
      [] word = <<"0">> -> {1,3,4,6,7,10,13,14,16,17,18,23,24,27,28,29,30,31,32,35,36,37,38,39,40,41,42,43,44,46,47,48,49,50,53,54,55,57,58,61,62}
      [] word = <<"1">> -> {0,1,3,4,7,10,15,16,18,20,21,22,24,25,26,27,29,30,33,35,36,39,44,46,50,51,54,55,56,58,59}
      [] word = <<"2">> -> {2,3,5,9,10,15,18,20,26,27,30,31,32,35,39,40,41,42,43,44,45,46,49,50,56,57,58,59,61,62}
      [] word = <<"3">> -> {0,1,4,5,6,7,9,11,12,13,15,16,17,18,21,23,25,28,29,30,31,32,35,36,38,39,40,41,42,43,47,52,53,59,61}
      [] word = <<"4">> -> {2,3,5,9,12,17,22,24,26,28,29,30,32,33,35,36,37,38,41,42,45,47,48,55,56,60,63}

\* v[i] after the loop over the words: +1 for each word whose hash has bit i, -1 otherwise
RECURSIVE BitVotes(_, _)
BitVotes(words, i) ==
    IF words = <<>> THEN 0
    ELSE (IF i \in md5_low64(Head(words)) THEN 1 ELSE -1) + BitVotes(Tail(words), i)

\* a faulty simhash: `if v[i] >= 0`, a tie sets the bit
simhash_setting_ties(text, bits) ==
    LET words == Split(normalize_text(text))
    IN IF words = <<>> THEN {}
       ELSE {i \in 0..(bits - 1) : BitVotes(words, i) >= 0}

\* simhash(text, hash_bits): the fingerprint, as the set of its 1 bits (0 is {}),
\* for hash_bits up to 64
simhash(text, bits) ==
    LET words == Split(normalize_text(text))
    IN IF words = <<>> THEN {}
       ELSE {i \in 0..(bits - 1) : BitVotes(words, i) > 0}

\* hamming_distance: popcount(hash1 ^ hash2)
hamming_distance(hash1, hash2) == Cardinality((hash1 \ hash2) \cup (hash2 \ hash1))

\* a faulty simhash_similarity: it divides by the default width, whatever bits is
simhash_similarity_over_default_width(hash1, hash2, bits) ==
    RSub(ROne, Rat(hamming_distance(hash1, hash2), hash_bits))

\* simhash_similarity: 1.0 - distance / bits
simhash_similarity(hash1, hash2, bits) ==
    RSub(ROne, Rat(hamming_distance(hash1, hash2), bits))

(***************************************************************************)
(* matching/dedup.py: Deduplicator                                         *)
(***************************************************************************)
\* Deduplicator._get_exact_key
get_exact_key(job) == IdentityKey(job)

\* Deduplicator._get_fuzzy_key
get_fuzzy_key(job) == normalize_text(job.title) \o <<":">> \o normalize_text(job.location)

\* Deduplicator._get_content_hash
get_content_hash(job) == simhash(get_searchable_text(job), hash_bits)

\* the three keys of every posting of the model, computed once
ExactKey(j) == get_exact_key(Posting[j])
FuzzyKey(j) == get_fuzzy_key(Posting[j])
ContentHash(j) == get_content_hash(Posting[j])
PostingId(j) == JobId(Posting[j])
ExactKeyOf == Tabulate(ExactKey, AllJobs)
FuzzyKeyOf == Tabulate(FuzzyKey, AllJobs)
ContentHashOf == Tabulate(ContentHash, AllJobs)
JobIdOf == Tabulate(PostingId, AllJobs)

\* self.job_exists_fn and self.job_exists_fn(job.id)
ExistsExternally(exists_fn, job) == exists_fn.bound /\ JobIdOf[job] \in exists_fn.ids

\* the arguments of the calls of job_exists_fn that this test makes: job.id when a
\* function is bound, no call otherwise
ExistsCalls(exists_fn, job) == IF exists_fn.bound THEN <<JobIdOf[job]>> ELSE <<>>

\* a faulty fuzzy check: the threshold itself no longer counts as a match (> for >=)
FuzzyMatchStrict(threshold, hashes, job) ==
    \E seen_key \in DOMAIN hashes :
        /\ seen_key = FuzzyKeyOf[job]
        /\ RLt(threshold, simhash_similarity(ContentHashOf[job], hashes[seen_key], hash_bits))

\* the fuzzy check of is_duplicate: an entry of _seen_hashes under the posting's
\* fuzzy key whose similarity to the posting's fingerprint reaches the threshold
FuzzyMatch(threshold, hashes, job) ==
    \E seen_key \in DOMAIN hashes :
        /\ seen_key = FuzzyKeyOf[job]
        /\ RLeq(threshold, simhash_similarity(ContentHashOf[job], hashes[seen_key], hash_bits))

\* a faulty dict assignment: the dict is replaced by one holding the new entry only
DictSetAlone(d, k, v) == [x \in {k} |-> v]

\* a faulty dict assignment: d.setdefault(k, v), an entry already there is kept
DictSetDefault(d, k, v) == [x \in (DOMAIN d) \cup {k} |-> IF x \in DOMAIN d THEN d[x] ELSE v]

\* dict assignment d[k] = v
DictSet(d, k, v) == [x \in (DOMAIN d) \cup {k} |-> IF x = k THEN v ELSE d[x]]

\* an empty dict
EmptyDict == [x \in {} |-> {}]

\* a faulty is_duplicate: a posting rejected by the fuzzy check is recorded all the same
is_duplicate_recording_rejected(threshold, exists_fn, ids, hashes, job) ==
    IF ExactKeyOf[job] \in ids
    THEN [result |-> TRUE, seen_ids |-> ids, seen_hashes |-> hashes, asked |-> <<>>]
    ELSE IF ExistsExternally(exists_fn, job)
    THEN [result |-> TRUE, seen_ids |-> ids, seen_hashes |-> hashes,
          asked |-> ExistsCalls(exists_fn, job)]
    ELSE [result |-> FuzzyMatch(threshold, hashes, job),
          seen_ids |-> ids \cup {ExactKeyOf[job]},
          seen_hashes |-> DictSet(hashes, FuzzyKeyOf[job], ContentHashOf[job]),
          asked |-> ExistsCalls(exists_fn, job)]

\* a faulty is_duplicate: the exact-key test is missing
is_duplicate_without_exact_key(threshold, exists_fn, ids, hashes, job) ==
    IF ExistsExternally(exists_fn, job)
    THEN [result |-> TRUE, seen_ids |-> ids, seen_hashes |-> hashes,
          asked |-> ExistsCalls(exists_fn, job)]
    ELSE IF \E seen_key \in DOMAIN hashes :
               /\ seen_key = FuzzyKeyOf[job]
               /\ RLeq(threshold, simhash_similarity(ContentHashOf[job], hashes[seen_key], hash_bits))
    THEN [result |-> TRUE, seen_ids |-> ids, seen_hashes |-> hashes,
          asked |-> ExistsCalls(exists_fn, job)]
    ELSE [result |-> FALSE,
          seen_ids |-> ids \cup {ExactKeyOf[job]},
          seen_hashes |-> DictSet(hashes, FuzzyKeyOf[job], ContentHashOf[job]),
          asked |-> ExistsCalls(exists_fn, job)]

\* Deduplicator.is_duplicate: the verdict, the session state it leaves and the
\* arguments of its calls of job_exists_fn
is_duplicate(threshold, exists_fn, ids, hashes, job) ==
    IF ExactKeyOf[job] \in ids
    THEN [result |-> TRUE, seen_ids |-> ids, seen_hashes |-> hashes, asked |-> <<>>]
    ELSE IF ExistsExternally(exists_fn, job)
    THEN [result |-> TRUE, seen_ids |-> ids, seen_hashes |-> hashes,
          asked |-> ExistsCalls(exists_fn, job)]
    ELSE IF FuzzyMatch(threshold, hashes, job)
    THEN [result |-> TRUE, seen_ids |-> ids, seen_hashes |-> hashes,
          asked |-> ExistsCalls(exists_fn, job)]
    ELSE [result |-> FALSE,
          seen_ids |-> ids \cup {ExactKeyOf[job]},
          seen_hashes |-> DictSet(hashes, FuzzyKeyOf[job], ContentHashOf[job]),
          asked |-> ExistsCalls(exists_fn, job)]

\* a faulty iteration of dedupe: the test of `if not self.is_duplicate(job)` inverted
DedupeStepInverted(acc, job, r) ==
    [unique |-> IF r.result THEN Append(acc.unique, job) ELSE acc.unique,
     seen_ids |-> r.seen_ids,
     seen_hashes |-> r.seen_hashes,
     calls |-> Append(acc.calls, [job |-> job, result |-> r.result]),
     asked |-> Append(acc.asked, r.asked)]

\* one iteration of the loop of dedupe: `if not self.is_duplicate(job): unique.append(job)`
\* with r the outcome of the is_duplicate call
DedupeStep(acc, job, r) ==
    [unique |-> IF r.result THEN acc.unique ELSE Append(acc.unique, job),
     seen_ids |-> r.seen_ids,
     seen_hashes |-> r.seen_hashes,
     calls |-> Append(acc.calls, [job |-> job, result |-> r.result]),
     asked |-> Append(acc.asked, r.asked)]

\* the loop of dedupe over the rest of the list
RECURSIVE DedupeLoop(_, _, _, _)
DedupeLoop(threshold, exists_fn, acc, jobs) ==
    IF jobs = <<>> THEN acc
    ELSE DedupeLoop(threshold, exists_fn,
                    DedupeStep(acc, Head(jobs),
                               is_duplicate(threshold, exists_fn, acc.seen_ids,
                                            acc.seen_hashes, Head(jobs))),
                    Tail(jobs))

\* Deduplicator.dedupe: the list returned, the session state it leaves and the
\* is_duplicate calls it made, in order
dedupe(threshold, exists_fn, ids, hashes, jobs) ==
    DedupeLoop(threshold, exists_fn,
               [unique |-> <<>>, seen_ids |-> ids, seen_hashes |-> hashes, calls |-> <<>>,
                asked |-> <<>>],
               jobs)

\* a faulty reset: _seen_hashes is not cleared
reset_keeps_hashes(ids, hashes) == [seen_ids |-> {}, seen_hashes |-> hashes]

\* Deduplicator.reset: the session state it leaves
reset(ids, hashes) == [seen_ids |-> {}, seen_hashes |-> EmptyDict]

\* Deduplicator.__init__: the session state of a new Deduplicator
NewSession == [seen_ids |-> {}, seen_hashes |-> EmptyDict]

(***************************************************************************)
(* The Deduplicator as a state machine.                                    *)
(***************************************************************************)
\* the (company, source_system, source_job_id) of a posting
Identity(j) ==
    <<Posting[j].company, Posting[j].source_system, Posting[j].source_job_id>>

\* the identity tuples of the calls that returned False
PassedIn(calls) == {Identity(calls[i].job) : i \in {k \in 1..Len(calls) : ~calls[k].result}}
\* the postings of the calls that returned False
AcceptedIn(calls) == {calls[i].job : i \in {k \in 1..Len(calls) : ~calls[k].result}}

\* similarity_threshold: the default 0.85, and 0.75
Thresholds == {Rat(85, 100), Rat(3, 4)}
\* job_exists_fn: None, or db.job_exists over a database holding the given ids
ExistsFns == {[bound |-> FALSE, ids |-> {}],
              [bound |-> TRUE, ids |-> {JobIdOf["J3"], JobIdOf["T2"]}]}
\* the postings handed to the Deduplicator: one by one, in lists of up to MaxList,
\* and as the list of the test
DedupJobs == {"J1", "J2", "J3", "J4", "J5"}
\* postings with and without ':' in their fields, and the lists of them
KeyJobs == {"K1", "K2", "J5", "J6"}
KeyLists == UNION {[1..n -> KeyJobs] : n \in 0..MaxList}

\* a list that holds a posting twice, with another one in between
RepeatList == <<"J3", "J4", "J3">>
JobLists == UNION {[1..n -> DedupJobs] : n \in 0..MaxList} \cup {TestList, RepeatList}

NoDedupOp ==
    [op |-> "none", jobs |-> <<>>, calls |-> <<>>, unique |-> <<>>,
     fresh_calls |-> <<>>, fresh_unique |-> <<>>, asked |-> <<>>]

\* a call of dedup.is_duplicate(job)
IsDuplicate(job) ==
    /\ dlast.op = "none"
    /\ \E r \in {is_duplicate(similarity_threshold, job_exists_fn, seen_ids, seen_hashes, job)},
       f \in {is_duplicate(similarity_threshold, job_exists_fn,
                           fresh.seen_ids, fresh.seen_hashes, job)} :
       LET calls == <<[job |-> job, result |-> r.result]>> IN
       /\ seen_ids' = r.seen_ids
       /\ seen_hashes' = r.seen_hashes
       /\ passed' = passed \cup PassedIn(calls)
       /\ accepted' = accepted \cup AcceptedIn(calls)
       /\ dlast' = [op |-> "is_duplicate", jobs |-> <<job>>, calls |-> calls,
                    unique |-> <<>>,
                    fresh_calls |-> IF fresh.active
                                    THEN <<[job |-> job, result |-> f.result]>> ELSE <<>>,
                    fresh_unique |-> <<>>, asked |-> <<r.asked>>]
       /\ fresh' = IF fresh.active
                   THEN [fresh EXCEPT !.seen_ids = f.seen_ids, !.seen_hashes = f.seen_hashes]
                   ELSE fresh
       /\ UNCHANGED <<similarity_threshold, job_exists_fn>>
       /\ UNCHANGED <<svars, fvars, cvars>>

\* a call of dedup.dedupe(jobs)
Dedupe(jobs) ==
    /\ dlast.op = "none"
    /\ \E r \in {dedupe(similarity_threshold, job_exists_fn, seen_ids, seen_hashes, jobs)},
       f \in {dedupe(similarity_threshold, job_exists_fn,
                     fresh.seen_ids, fresh.seen_hashes, jobs)} :
       /\ seen_ids' = r.seen_ids
       /\ seen_hashes' = r.seen_hashes
       /\ passed' = passed \cup PassedIn(r.calls)
       /\ accepted' = accepted \cup AcceptedIn(r.calls)
       /\ dlast' = [op |-> "dedupe", jobs |-> jobs, calls |-> r.calls,
                    unique |-> r.unique,
                    fresh_calls |-> IF fresh.active THEN f.calls ELSE <<>>,
                    fresh_unique |-> IF fresh.active THEN f.unique ELSE <<>>,
                    asked |-> r.asked]
       /\ fresh' = IF fresh.active
                   THEN [fresh EXCEPT !.seen_ids = f.seen_ids, !.seen_hashes = f.seen_hashes]
                   ELSE fresh
       /\ UNCHANGED <<similarity_threshold, job_exists_fn>>
       /\ UNCHANGED <<svars, fvars, cvars>>

\* a call of dedup.reset(); from here on `fresh` is a newly constructed
\* Deduplicator(similarity_threshold, job_exists_fn)
Reset ==
    /\ dlast.op = "none"
    /\ \E r \in {reset(seen_ids, seen_hashes)} :
       /\ seen_ids' = r.seen_ids
       /\ seen_hashes' = r.seen_hashes
       /\ passed' = {}
       /\ accepted' = {}
       /\ dlast' = [NoDedupOp EXCEPT !.op = "reset"]
       /\ fresh' = [active |-> TRUE, cleared |-> seen_ids # {},
                    seen_ids |-> NewSession.seen_ids,
                    seen_hashes |-> NewSession.seen_hashes]
       /\ UNCHANGED <<similarity_threshold, job_exists_fn>>
       /\ UNCHANGED <<svars, fvars, cvars>>

(***************************************************************************)
(* models/company.py: MatchingProfile                                      *)
(***************************************************************************)
MatchingProfile(roles, must_have, must_not, locations, remote, threshold, vw, kw, rw) ==
    [desired_roles |-> roles, must_have_keywords |-> must_have,
     must_not_keywords |-> must_not, preferred_locations |-> locations,
     remote_preference |-> remote, min_score_threshold |-> threshold,
     vector_weight |-> vw, keyword_weight |-> kw, recency_weight |-> rw]

\* the profile of the tests, on the model's vocabulary, with the default weights
\* 0.55 / 0.30 / 0.15 and the default threshold 0.3
P1 == MatchingProfile(<<<<"d","e","v">>, <<"q","a">>>>,
                      <<<<"p","y">>, <<"b","e">>>>,
                      <<<<"u","x">>, <<"s","r">>>>,
                      <<<<"s","f">>, <<"C","A">>>>,
                      "remote", Rat(3, 10), Rat(55, 100), Rat(30, 100), Rat(15, 100))
\* MatchingProfile() with every list empty, weights that do not sum to 1
P2 == MatchingProfile(<<>>, <<>>, <<>>, <<>>, "None",
                      Rat(3, 10), Rat(1, 1), Rat(1, 1), Rat(1, 1))
\* two roles that match the same title, three must-have keywords
P3 == MatchingProfile(<<<<"D","e","v">>, <<"s","r"," ","d","e","v">>>>,
                      <<<<"p","y">>, <<"b","e">>, <<"u","x">>>>,
                      <<<<"g","o">>>>,
                      <<<<"n","y">>>>,
                      "onsite", Rat(1, 10), Rat(1, 2), Rat(1, 4), Rat(1, 4))
\* a role and a must-have keyword that no posting has, no location or remote
\* preference: postings that are not excluded get the keyword score 0.0
P4 == MatchingProfile(<<<<"p","m">>>>,
                      <<<<"r","u","s","t">>>>,
                      <<<<"s","r">>>>,
                      <<>>,
                      "None", Rat(3, 10), Rat(1, 2), Rat(1, 4), Rat(1, 4))
Profiles == {P1, P2, P3, P4}

(***************************************************************************)
(* matching/keyword.py: KeywordScorer and RecencyScorer                    *)
(***************************************************************************)
Reason(kind, text) == [kind |-> kind, text |-> text]

\* the first pattern of the list that matches the text: its index, 0 when none does
\* (for pattern in patterns: if pattern.search(text): ... return / break)
RECURSIVE FirstMatch(_, _, _)
FirstMatch(patterns, text, i) ==
    IF i > Len(patterns) THEN 0
    ELSE IF PatternSearch(patterns[i], text) THEN i
    ELSE FirstMatch(patterns, text, i + 1)

\* the must-have loop: the patterns that match, in order (one reason each)
RECURSIVE MatchedKeywords(_, _)
MatchedKeywords(patterns, text) ==
    IF patterns = <<>> THEN <<>>
    ELSE (IF PatternSearch(Head(patterns), text) THEN <<Head(patterns)>> ELSE <<>>)
         \o MatchedKeywords(Tail(patterns), text)

\* the preferred-location loop: the first pref_loc with pref_loc.lower() in loc_lower
RECURSIVE FirstLocation(_, _, _)
FirstLocation(locations, loc_lower, i) ==
    IF i > Len(locations) THEN 0
    ELSE IF Contains(loc_lower, Lower(locations[i])) THEN i
    ELSE FirstLocation(locations, loc_lower, i + 1)

\* a faulty must-not loop: the last matching phrase is reported, not the first
RECURSIVE LastMatch(_, _, _)
LastMatch(patterns, text, i) ==
    IF i < 1 THEN 0
    ELSE IF PatternSearch(patterns[i], text) THEN i
    ELSE LastMatch(patterns, text, i - 1)
MustNotMatchLast(must_not, text) == LastMatch(must_not, text, Len(must_not))

\* the must-not loop of KeywordScorer.score: the index of the phrase it returns
\* on, 0 when it falls through
MustNotMatch(must_not, text) == FirstMatch(must_not, text, 1)

\* a faulty must-have block: no flat bonus when no must-have keyword is configured
MustHaveScoreWithoutBonus(must_have, matched) ==
    IF must_have # <<>>
    THEN RMul(Rat(Len(matched), Len(must_have)), Rat(4, 10))
    ELSE RZero

\* the must-have block of KeywordScorer.score: (matched_count / len) * 0.4, else 0.2
MustHaveScore(must_have, matched) ==
    IF must_have # <<>>
    THEN RMul(Rat(Len(matched), Len(must_have)), Rat(4, 10))
    ELSE Rat(2, 10)

\* KeywordScorer.score
KeywordScore(p, job) ==
    LET text == get_searchable_text(job)
        title == Lower(job.title)
        excluded == MustNotMatch(p.must_not_keywords, text)
        role == FirstMatch(p.desired_roles, title, 1)
        role_match_score == IF role > 0 THEN Rat(4, 10) ELSE RZero
        role_reasons == IF role > 0
                        THEN <<Reason("Role match", PatternSource(p.desired_roles[role]))>>
                        ELSE <<>>
        matched == MatchedKeywords(p.must_have_keywords, text)
        keyword_score == MustHaveScore(p.must_have_keywords, matched)
        keyword_reasons ==
            [i \in 1..Len(matched) |-> Reason("Keyword", PatternSource(matched[i]))]
        loc == IF job.location # <<>> /\ p.preferred_locations # <<>>
               THEN FirstLocation(p.preferred_locations, Lower(job.location), 1) ELSE 0
        loc_score == IF loc > 0 THEN Rat(1, 10) ELSE RZero
        loc_reasons == IF loc > 0
                       THEN <<Reason("Location", p.preferred_locations[loc])>> ELSE <<>>
        remote == p.remote_preference # "None" /\ job.remote_type = p.remote_preference
        remote_score == IF remote THEN Rat(1, 10) ELSE RZero
        remote_reasons == IF remote THEN <<Reason("Remote", <<job.remote_type>>)>> ELSE <<>>
        score == RAdd(RAdd(RAdd(role_match_score, keyword_score), loc_score), remote_score)
    IN IF excluded > 0
       THEN [score |-> RZero,
             reasons |-> <<Reason("Excluded", PatternSource(p.must_not_keywords[excluded]))>>]
       ELSE [score |-> RMin(score, ROne),
             reasons |-> role_reasons \o keyword_reasons \o loc_reasons \o remote_reasons]

\* RecencyScorer.__init__ default
max_age_days == 30

\* sqrt of num/den (0 <= num/den <= 1), in thousandths, rounded down
SqrtMilli(num, den) ==
    CHOOSE r \in 0..1000 : r * r * den <= num * 1000000 /\ num * 1000000 < (r + 1) * (r + 1) * den

\* a faulty RecencyScorer.score: the decay is linear, the ** 0.5 is missing
RecencyScoreLinear(job) ==
    IF ~job.has_posted_at THEN RHalf
    ELSE IF job.age_hours <= 0 THEN ROne
    ELSE IF job.age_hours >= max_age_days * 24 THEN RZero
    ELSE LET decay == RSub(ROne, Rat(job.age_hours, max_age_days * 24))
         IN IF RLt(decay, RZero) THEN RZero ELSE RMin(ROne, decay)

\* RecencyScorer.score, on the posting's age in hours; the decay
\* 1.0 - (age_days / max_age_days) ** 0.5 is computed to three decimal places
RecencyScore(job) ==
    IF ~job.has_posted_at THEN RHalf
    ELSE IF job.age_hours <= 0 THEN ROne
    ELSE IF job.age_hours >= max_age_days * 24 THEN RZero
    ELSE LET decay == RSub(ROne, Rat(SqrtMilli(job.age_hours, max_age_days * 24), 1000))
         IN IF RLt(decay, RZero) THEN RZero ELSE RMin(ROne, decay)

\* both scorers' verdicts on every posting under every profile, computed once
KeywordScores(p) ==
    LET OfPosting(j) == KeywordScore(p, Posting[j]) IN Tabulate(OfPosting, Jobs)
RecencyOfPosting(j) == RecencyScore(Posting[j])
KeywordScoreOf == Tabulate(KeywordScores, Profiles)
RecencyScoreOf == Tabulate(RecencyOfPosting, Jobs)

(***************************************************************************)
(* matching/embeddings: the provider behind Scorer.embedding_provider      *)
(***************************************************************************)
\* class: NoEmbeddingProvider, or another EmbeddingProvider ("Other": the Ollama,
\* OpenAI and local providers).  mode: what the backend does when called now:
\*   "ok"                 embed returns one vector per text, similarity a float
\*   "embed_raises"       embed raises (response.raise_for_status(), no connection)
\*   "embed_empty"        embed returns []
\*   "similarity_raises"  embed returns vectors, similarity raises
EmbeddingProvider(class, mode) == [class |-> class, mode |-> mode]
ProviderModes == {"ok", "embed_raises", "embed_empty", "similarity_raises"}

\* provider.similarity(profile_emb, job_emb) for the posting's text: a cosine
\* similarity in [-1, 1], fixed per posting as for a fixed embedding model
SimilarityOf ==
    [j \in Jobs |->
        CASE j = "J1" -> Rat(1, 5)
          [] j = "J2" -> Rat(0, 1)
          [] j = "J3" -> Rat(-1, 2)
          [] j = "J4" -> Rat(3, 5)
          [] j = "J5" -> Rat(1, 2)
          [] j = "J6" -> Rat(-1, 1)
          [] j = "J7" -> Rat(1, 1)]

(***************************************************************************)
(* matching/scorer.py: Scorer                                              *)
(***************************************************************************)
ScoredJobPosting(job, final, vector, keyword, recency, reasons) ==
    [job |-> job, final_score |-> final, vector_score |-> vector,
     keyword_score |-> keyword, recency_score |-> recency, match_reasons |-> reasons]

\* Scorer._get_profile_embedding: whether it raised, the cache it leaves and the
\* provider calls it made
get_profile_embedding(p, provider, cache) ==
    IF cache # "None"
    THEN [raised |-> FALSE, cache |-> cache, events |-> <<>>]
    ELSE LET profile_text == JoinSpace(p.desired_roles \o p.must_have_keywords)
         IN IF profile_text # <<>>
            THEN CASE provider.mode = "embed_raises" ->
                        [raised |-> TRUE, cache |-> "None", events |-> <<"embed_profile">>]
                   [] provider.mode = "embed_empty" ->
                        [raised |-> FALSE, cache |-> "empty", events |-> <<"embed_profile">>]
                   [] OTHER ->
                        [raised |-> FALSE, cache |-> "vec", events |-> <<"embed_profile">>]
            ELSE [raised |-> FALSE, cache |-> "empty", events |-> <<>>]

\* a faulty vector-score block: the except clause sets vector_score = 0.0
VectorFromProfileFailingToZero(provider, job, pe) ==
    IF pe.raised
    THEN [score |-> RZero, cache |-> pe.cache, events |-> pe.events]
    ELSE IF pe.cache # "vec"
    THEN [score |-> RHalf, cache |-> pe.cache, events |-> pe.events]
    ELSE CASE provider.mode = "embed_raises" ->
                [score |-> RZero, cache |-> pe.cache,
                 events |-> pe.events \o <<"embed_job">>]
           [] provider.mode = "embed_empty" ->
                [score |-> RHalf, cache |-> pe.cache,
                 events |-> pe.events \o <<"embed_job">>]
           [] provider.mode = "similarity_raises" ->
                [score |-> RZero, cache |-> pe.cache,
                 events |-> pe.events \o <<"embed_job", "similarity">>]
           [] OTHER ->
                [score |-> RMul(RAdd(SimilarityOf[job], ROne), RHalf),
                 cache |-> pe.cache,
                 events |-> pe.events \o <<"embed_job", "similarity">>]

\* a faulty vector-score block: raw_sim is used as it is, not mapped to (raw_sim + 1) / 2
VectorFromProfileRaw(provider, job, pe) ==
    IF pe.raised
    THEN [score |-> RHalf, cache |-> pe.cache, events |-> pe.events]
    ELSE IF pe.cache # "vec"
    THEN [score |-> RHalf, cache |-> pe.cache, events |-> pe.events]
    ELSE CASE provider.mode = "embed_raises" ->
                [score |-> RHalf, cache |-> pe.cache,
                 events |-> pe.events \o <<"embed_job">>]
           [] provider.mode = "embed_empty" ->
                [score |-> RHalf, cache |-> pe.cache,
                 events |-> pe.events \o <<"embed_job">>]
           [] provider.mode = "similarity_raises" ->
                [score |-> RHalf, cache |-> pe.cache,
                 events |-> pe.events \o <<"embed_job", "similarity">>]
           [] OTHER ->
                [score |-> SimilarityOf[job],
                 cache |-> pe.cache,
                 events |-> pe.events \o <<"embed_job", "similarity">>]

\* the vector-score block of Scorer.score once _get_profile_embedding has returned
\* or raised (pe): try ... except Exception: vector_score = 0.5
VectorFromProfile(provider, job, pe) ==
    IF pe.raised
    THEN [score |-> RHalf, cache |-> pe.cache, events |-> pe.events]
    ELSE IF pe.cache # "vec"
    THEN [score |-> RHalf, cache |-> pe.cache, events |-> pe.events]
    ELSE CASE provider.mode = "embed_raises" ->
                [score |-> RHalf, cache |-> pe.cache,
                 events |-> pe.events \o <<"embed_job">>]
           [] provider.mode = "embed_empty" ->
                [score |-> RHalf, cache |-> pe.cache,
                 events |-> pe.events \o <<"embed_job">>]
           [] provider.mode = "similarity_raises" ->
                [score |-> RHalf, cache |-> pe.cache,
                 events |-> pe.events \o <<"embed_job", "similarity">>]
           [] OTHER ->
                [score |-> RMul(RAdd(SimilarityOf[job], ROne), RHalf),
                 cache |-> pe.cache,
                 events |-> pe.events \o <<"embed_job", "similarity">>]

\* a faulty vector-score block: the isinstance(..., NoEmbeddingProvider) test is missing
VectorScoreWithoutNeutralTest(p, provider, cache, job) ==
    VectorFromProfile(provider, job, get_profile_embedding(p, provider, cache))

\* the vector-score block of Scorer.score: vector_score = 0.5 unless the provider
\* is a real one
VectorScore(p, provider, cache, job) ==
    IF provider.class = "NoEmbeddingProvider"
    THEN [score |-> RHalf, cache |-> cache, events |-> <<>>]
    ELSE VectorFromProfile(provider, job, get_profile_embedding(p, provider, cache))

\* a faulty final_score: the vector and keyword weights applied to each other's score
FinalScoreSwapped(p, vector_score, keyword_score, recency_score) ==
    RAdd(RAdd(RMul(p.keyword_weight, vector_score),
              RMul(p.vector_weight, keyword_score)),
         RMul(p.recency_weight, recency_score))

\* final_score of Scorer.score
FinalScore(p, vector_score, keyword_score, recency_score) ==
    RAdd(RAdd(RMul(p.vector_weight, vector_score),
              RMul(p.keyword_weight, keyword_score)),
         RMul(p.recency_weight, recency_score))

\* faulty reasons of Scorer.score: `vector_score >= 0.6`, `recency_score >= 0.7`
MatchReasonsAtThreshold(keyword_reasons, vector_score, recency_score) ==
    keyword_reasons
    \o (IF RLeq(Rat(6, 10), vector_score)
        THEN <<Reason("High semantic similarity", <<>>)>> ELSE <<>>)
    \o (IF RLeq(Rat(7, 10), recency_score)
        THEN <<Reason("Recently posted", <<>>)>> ELSE <<>>)

\* the reasons of Scorer.score: the keyword reasons, then the two optional ones
MatchReasons(keyword_reasons, vector_score, recency_score) ==
    keyword_reasons
    \o (IF RLt(Rat(6, 10), vector_score)
        THEN <<Reason("High semantic similarity", <<>>)>> ELSE <<>>)
    \o (IF RLt(Rat(7, 10), recency_score)
        THEN <<Reason("Recently posted", <<>>)>> ELSE <<>>)

\* Scorer.score from the recency scorer on, for a posting that is not excluded:
\* k is the keyword scorer's verdict, v the outcome of the vector-score block
ScoreSignals(p, job, k, recency_score, v) ==
    [result |-> ScoredJobPosting(job, FinalScore(p, v.score, k.score, recency_score),
                                 v.score, k.score, recency_score,
                                 MatchReasons(k.reasons, v.score, recency_score)),
     cache |-> v.cache,
     events |-> <<"keyword", "recency">> \o v.events]

\* a faulty Scorer.score: no short-circuit on exclusion
ScoreFromKeywordWithoutShortCircuit(p, provider, cache, job, k) ==
    ScoreSignals(p, job, k, RecencyScoreOf[job], VectorScore(p, provider, cache, job))

ScoreFromKeywordOnZeroScore(p, provider, cache, job, k) ==
    IF REq(k.score, RZero)
    THEN [result |-> ScoredJobPosting(job, RZero, RZero, RZero, RZero, k.reasons),
          cache |-> cache, events |-> <<"keyword">>]
    ELSE ScoreSignals(p, job, k, RecencyScoreOf[job], VectorScore(p, provider, cache, job))

\* Scorer.score after the keyword scorer has returned k
ScoreFromKeyword(p, provider, cache, job, k) ==
    IF REq(k.score, RZero) /\ k.reasons # <<>>
    THEN [result |-> ScoredJobPosting(job, RZero, RZero, RZero, RZero, k.reasons),
          cache |-> cache, events |-> <<"keyword">>]
    ELSE ScoreSignals(p, job, k, RecencyScoreOf[job], VectorScore(p, provider, cache, job))

\* Scorer.score: the ScoredJobPosting, the profile-embedding cache it leaves and
\* the scorer and provider calls it made, in order
ScorerScore(p, provider, cache, job) ==
    ScoreFromKeyword(p, provider, cache, job, KeywordScoreOf[p][job])

\* a faulty threshold: `min_score or self.profile.min_score_threshold`, which takes
\* an explicit 0.0 for no min_score at all
ThresholdOrDefault(p, min_score) ==
    IF min_score.given /\ ~REq(min_score.value, RZero)
    THEN min_score.value ELSE p.min_score_threshold

\* threshold = min_score if min_score is not None else self.profile.min_score_threshold
Threshold(p, min_score) ==
    IF min_score.given THEN min_score.value ELSE p.min_score_threshold

\* a faulty sort: x goes before the elements with an equal score (not stable)
RECURSIVE SortedInsertBeforeEqual(_, _)
SortedInsertBeforeEqual(sorted, x) ==
    IF sorted = <<>> THEN <<x>>
    ELSE IF RLeq(Head(sorted).final_score, x.final_score) THEN <<x>> \o sorted
    ELSE <<Head(sorted)>> \o SortedInsertBeforeEqual(Tail(sorted), x)

\* list.sort(key=final_score, reverse=True) is stable: x goes before the first
\* element with a smaller score, after every element with an equal one
RECURSIVE SortedInsert(_, _)
SortedInsert(sorted, x) ==
    IF sorted = <<>> THEN <<x>>
    ELSE IF RLt(Head(sorted).final_score, x.final_score) THEN <<x>> \o sorted
    ELSE <<Head(sorted)>> \o SortedInsert(Tail(sorted), x)

\* the sort as insertions of the elements in list order
RECURSIVE SortDescending(_)
SortDescending(scored) ==
    IF scored = <<>> THEN <<>>
    ELSE SortedInsert(SortDescending(SubSeq(scored, 1, Len(scored) - 1)),
                      scored[Len(scored)])

\* one iteration of the loop of score_batch, with s the outcome of self.score(job):
\* `if scored_job.final_score >= threshold: scored.append(scored_job)`
ScoreStep(acc, s, threshold) ==
    [all |-> Append(acc.all, s.result),
     scored |-> IF RLeq(threshold, s.result.final_score)
                THEN Append(acc.scored, s.result) ELSE acc.scored,
     cache |-> s.cache,
     events |-> acc.events \o s.events]

\* the loop of Scorer.score_batch: every scored_job in input order (all), those
\* appended to `scored`, the cache left and the calls made
RECURSIVE ScoreLoop(_, _, _, _, _)
ScoreLoop(p, provider, acc, jobs, threshold) ==
    IF jobs = <<>> THEN acc
    ELSE ScoreLoop(p, provider,
                   ScoreStep(acc, ScorerScore(p, provider, acc.cache, Head(jobs)), threshold),
                   Tail(jobs), threshold)

\* the result of score_batch once the loop is over: scored.sort(...); return scored
BatchResult(loop) ==
    [result |-> SortDescending(loop.scored), all |-> loop.all,
     cache |-> loop.cache, events |-> loop.events]

\* Scorer.score_batch
score_batch(p, provider, cache, jobs, min_score) ==
    BatchResult(ScoreLoop(p, provider,
                          [all |-> <<>>, scored |-> <<>>, cache |-> cache, events |-> <<>>],
                          jobs, Threshold(p, min_score)))

(***************************************************************************)
(* The Scorer as a state machine.                                          *)
(***************************************************************************)
None == [given |-> FALSE, value |-> RZero]
Given(x) == [given |-> TRUE, value |-> x]
\* the min_score arguments: None, an explicit 0.0 and 0.5
MinScores == {None, Given(RZero), Given(RHalf)}
\* the postings handed to the Scorer: one by one and in batches of up to MaxBatch
ScoreJobs == Jobs
\* and one list of three: two postings that tie under P2 and a later one that
\* scores higher
TieBatch == <<"J6", "J2", "J5">>
Batches == UNION {[1..n -> ScoreJobs] : n \in 0..MaxBatch} \cup {TieBatch}

\* the calls of embed with the profile text so far, after a call that made `events`
CountedEmbeds(count, events) ==
    LET more == Cardinality({i \in 1..Len(events) : events[i] = "embed_profile"})
    IN IF count + more > MaxEmbeds THEN MaxEmbeds ELSE count + more

NoScoreOp ==
    [op |-> "none", jobs |-> <<>>, min_score |-> None, result |-> <<>>, all |-> <<>>,
     keyword |-> <<>>, events |-> <<>>, cache_before |-> "None"]

\* await scorer.score(job)
Score(job) ==
    /\ slast.op = "none"
    /\ \E s \in {ScorerScore(profile, embedding_provider, profile_embedding, job)} :
       /\ profile_embedding' = s.cache
       /\ slast' = [op |-> "score", jobs |-> <<job>>, min_score |-> None,
                    result |-> <<s.result>>, all |-> <<s.result>>,
                    keyword |-> <<KeywordScoreOf[profile][job]>>,
                    events |-> s.events, cache_before |-> profile_embedding]
       /\ profile_embeds' = CountedEmbeds(profile_embeds, s.events)
       /\ UNCHANGED <<profile, embedding_provider>>
       /\ UNCHANGED <<dvars, fvars, cvars>>

\* await scorer.score_batch(jobs, min_score)
ScoreBatch(jobs, min_score) ==
    /\ slast.op = "none"
    /\ \E b \in {score_batch(profile, embedding_provider, profile_embedding, jobs, min_score)} :
       /\ profile_embedding' = b.cache
       /\ slast' = [op |-> "score_batch", jobs |-> jobs, min_score |-> min_score,
                    result |-> b.result, all |-> b.all,
                    keyword |-> [i \in 1..Len(jobs) |-> KeywordScoreOf[profile][jobs[i]]],
                    events |-> b.events, cache_before |-> profile_embedding]
       /\ profile_embeds' = CountedEmbeds(profile_embeds, b.events)
       /\ UNCHANGED <<profile, embedding_provider>>
       /\ UNCHANGED <<dvars, fvars, cvars>>

\* the backend of a real provider starts or stops answering between two calls
ProviderChange(mode) ==
    /\ embedding_provider.class # "NoEmbeddingProvider"
    /\ embedding_provider.mode # mode
    /\ slast.op = "none"
    /\ embedding_provider' = [embedding_provider EXCEPT !.mode = mode]
    /\ UNCHANGED <<profile, profile_embedding, slast, profile_embeds>>
    /\ UNCHANGED <<dvars, fvars, cvars>>

\* the caller takes the value of the call it awaited and goes on to its next call
ScorerReturn ==
    /\ slast.op # "none"
    /\ slast' = NoScoreOp
    /\ UNCHANGED <<profile, embedding_provider, profile_embedding, profile_embeds>>
    /\ UNCHANGED <<dvars, fvars, cvars>>

\* the caller takes the value of the call it made and goes on to its next call
DedupReturn ==
    /\ dlast.op # "none"
    /\ dlast' = NoDedupOp
    /\ UNCHANGED <<similarity_threshold, job_exists_fn, seen_ids, seen_hashes, passed, accepted, fresh>>
    /\ UNCHANGED <<svars, fvars, cvars>>

(***************************************************************************)
(* The module-level functions of dedup.py as operations of their own.      *)
(***************************************************************************)
\* the characters of the texts: an upper-case and a lower-case letter, the
\* underscore, another punctuation mark, and two kinds of whitespace
TextChars == {"A", "b", "_", ",", " ", "\t"}

RECURSIVE TextsOfLength(_)
TextsOfLength(n) ==
    IF n = 0 THEN {<<>>}
    ELSE {Append(t, c) : t \in TextsOfLength(n - 1), c \in TextChars}

\* the texts given to normalize_text
Texts == UNION {TextsOfLength(n) : n \in 0..MaxText}

\* the widths given to simhash_similarity: the default and some narrow ones
Widths == (1..MaxBits) \cup {hash_bits}

\* the fingerprints of a given width: all of them when it is narrow, and at the
\* default width those of the postings, 0 and 2^64 - 1
Fingerprints(bits) ==
    IF bits = hash_bits
    THEN {ContentHashOf[j] : j \in AllJobs} \cup {{}, 0..(hash_bits - 1)}
    ELSE SUBSET (0..(bits - 1))

\* the tokens of the texts given to simhash: words in lower and upper case, with
\* and without punctuation, and a token that is punctuation only
Tokens == {<<"p", "y">>, <<"P", "y", ",">>, <<"b", "e">>, <<"d", "e", "v">>, <<",">>}

\* the texts given to simhash: up to MaxWords tokens joined by spaces
SimhashTexts == {JoinSpace(ws) : ws \in UNION {[1..n -> Tokens] : n \in 0..MaxWords}}

NoFunctionOp ==
    [op |-> "none", text |-> <<>>, normalized |-> <<>>,
     hash1 |-> {}, hash2 |-> {}, bits |-> hash_bits, similarity |-> ROne,
     fingerprint |-> {}]

\* simhash(text, bits)
Simhash(text, bits) ==
    /\ flast.op = "none"
    /\ flast' = [NoFunctionOp EXCEPT !.op = "simhash", !.text = text, !.bits = bits,
                                     !.fingerprint = simhash(text, bits)]
    /\ UNCHANGED <<dvars, svars, cvars>>

\* normalize_text(text)
NormalizeText(text) ==
    /\ flast.op = "none"
    /\ flast' = [NoFunctionOp EXCEPT !.op = "normalize_text", !.text = text,
                                     !.normalized = normalize_text(text)]
    /\ UNCHANGED <<dvars, svars, cvars>>

\* simhash_similarity(hash1, hash2, bits)
SimhashSimilarity(hash1, hash2, bits) ==
    /\ flast.op = "none"
    /\ flast' = [NoFunctionOp EXCEPT !.op = "simhash_similarity", !.hash1 = hash1,
                                     !.hash2 = hash2, !.bits = bits,
                                     !.similarity = simhash_similarity(hash1, hash2, bits)]
    /\ UNCHANGED <<dvars, svars, cvars>>

\* the caller takes the value and goes on to its next call
FunctionReturn ==
    /\ flast.op # "none"
    /\ flast' = NoFunctionOp
    /\ UNCHANGED <<dvars, svars, cvars>>

(***************************************************************************)
(* Scorer.score as coroutines of one event loop: a coroutine runs alone    *)
(* from one await of a provider call to the next.                          *)
(***************************************************************************)
Tasks == 1..MaxTasks

\* a coroutine not started yet
NewTask == [pc |-> "ready", job |-> "none", embedded |-> FALSE, vector_score |-> RHalf]
NoTasks == [t \in Tasks |-> NewTask]

\* the postings scored concurrently
ConcurrentJobs == {"J1", "J2", "J5"}

\* `" ".join([*desired_roles, *must_have_keywords])` of _get_profile_embedding
ProfileText(p) == JoinSpace(p.desired_roles \o p.must_have_keywords)

\* score(job) is entered and runs to its first await: the keyword scorer, the
\* short-circuit, the recency scorer, the isinstance test, and
\* _get_profile_embedding up to `await self.embedding_provider.embed([profile_text])`,
\* or, with the cache filled, on to `await self.embedding_provider.embed([job_text])`
TaskStart(t, job) ==
    /\ tasks[t].pc = "ready"
    /\ LET k == KeywordScoreOf[profile][job]
           run == [tasks[t] EXCEPT !.job = job]
       IN IF (REq(k.score, RZero) /\ k.reasons # <<>>)
             \/ embedding_provider.class = "NoEmbeddingProvider"
          THEN /\ tasks' = [tasks EXCEPT ![t] = [run EXCEPT !.pc = "done"]]
               /\ UNCHANGED <<profile_embedding, profile_embeds>>
          ELSE IF profile_embedding = "None"
          THEN IF ProfileText(profile) # <<>>
               THEN /\ tasks' = [tasks EXCEPT ![t] = [run EXCEPT !.pc = "profile_embed",
                                                                 !.embedded = TRUE]]
                    /\ profile_embeds' = CountedEmbeds(profile_embeds, <<"embed_profile">>)
                    /\ UNCHANGED profile_embedding
               ELSE /\ profile_embedding' = "empty"
                    /\ tasks' = [tasks EXCEPT ![t] = [run EXCEPT !.pc = "done"]]
                    /\ UNCHANGED profile_embeds
          ELSE /\ tasks' = [tasks EXCEPT ![t] =
                               [run EXCEPT !.pc = IF profile_embedding = "vec"
                                                  THEN "job_embed" ELSE "done"]]
               /\ UNCHANGED <<profile_embedding, profile_embeds>>
    /\ UNCHANGED <<profile, embedding_provider, slast, threads, http>>
    /\ UNCHANGED <<dvars, fvars>>

\* embed([profile_text]) returns to the coroutine: the cache is assigned, and with
\* a non-empty vector the coroutine goes on to `await embed([job_text])`
ProfileEmbedReturns(t) ==
    /\ tasks[t].pc = "profile_embed"
    /\ IF embedding_provider.mode = "embed_empty"
       THEN /\ profile_embedding' = "empty"
            /\ tasks' = [tasks EXCEPT ![t].pc = "done"]
       ELSE /\ profile_embedding' = "vec"
            /\ tasks' = [tasks EXCEPT ![t].pc = "job_embed"]
    /\ UNCHANGED <<profile, embedding_provider, slast, profile_embeds, threads, http>>
    /\ UNCHANGED <<dvars, fvars>>

\* embed([job_text]) returns to the coroutine: similarity, vector_score, the final
\* score and the return
JobEmbedReturns(t) ==
    /\ tasks[t].pc = "job_embed"
    /\ tasks' = [tasks EXCEPT ![t].pc = "done",
                              ![t].vector_score =
                                  RMul(RAdd(SimilarityOf[tasks[t].job], ROne), RHalf)]
    /\ UNCHANGED <<svars, threads, http>>
    /\ UNCHANGED <<dvars, fvars>>

(***************************************************************************)
(* Deduplicator.is_duplicate called from several threads: the interpreter  *)
(* can switch threads between any two statements of the method.            *)
(***************************************************************************)
Threads == 1..MaxThreads

\* a thread that has not called is_duplicate yet
NewThread == [pc |-> "ready", job |-> "none", result |-> FALSE]
NoThreads == [t \in Threads |-> NewThread]

\* the postings handed to is_duplicate by the threads
ThreadJobs == {"J1", "J2", "J4"}

\* is_duplicate(job) is entered: `if exact_key in self._seen_ids: return True`
ThreadExactCheck(t, job) ==
    /\ threads[t].pc = "ready"
    /\ threads' = [threads EXCEPT ![t] =
                      IF ExactKeyOf[job] \in seen_ids
                      THEN [pc |-> "done", job |-> job, result |-> TRUE]
                      ELSE [pc |-> "external", job |-> job, result |-> FALSE]]
    /\ UNCHANGED <<dvars, svars, fvars, tasks, http>>

\* `if self.job_exists_fn and self.job_exists_fn(job.id): return True`
ThreadExternalCheck(t) ==
    /\ threads[t].pc = "external"
    /\ threads' = [threads EXCEPT ![t] =
                      IF ExistsExternally(job_exists_fn, threads[t].job)
                      THEN [@ EXCEPT !.pc = "done", !.result = TRUE]
                      ELSE [@ EXCEPT !.pc = "fuzzy"]]
    /\ UNCHANGED <<dvars, svars, fvars, tasks, http>>

\* the loop over self._seen_hashes.items()
ThreadFuzzyCheck(t) ==
    /\ threads[t].pc = "fuzzy"
    /\ threads' = [threads EXCEPT ![t] =
                      IF FuzzyMatch(similarity_threshold, seen_hashes, threads[t].job)
                      THEN [@ EXCEPT !.pc = "done", !.result = TRUE]
                      ELSE [@ EXCEPT !.pc = "add_id"]]
    /\ UNCHANGED <<dvars, svars, fvars, tasks, http>>

\* `self._seen_ids.add(exact_key)`
ThreadAddId(t) ==
    /\ threads[t].pc = "add_id"
    /\ seen_ids' = seen_ids \cup {ExactKeyOf[threads[t].job]}
    /\ threads' = [threads EXCEPT ![t].pc = "set_hash"]
    /\ UNCHANGED <<similarity_threshold, job_exists_fn, seen_hashes, passed, accepted,
                   dlast, fresh>>
    /\ UNCHANGED <<svars, fvars, tasks, http>>

\* `self._seen_hashes[fuzzy_key] = content_hash` and `return False`
ThreadSetHash(t) ==
    /\ threads[t].pc = "set_hash"
    /\ seen_hashes' = DictSet(seen_hashes, FuzzyKeyOf[threads[t].job],
                              ContentHashOf[threads[t].job])
    /\ accepted' = accepted \cup {threads[t].job}
    /\ passed' = passed \cup {Identity(threads[t].job)}
    /\ threads' = [threads EXCEPT ![t].pc = "done"]
    /\ UNCHANGED <<similarity_threshold, job_exists_fn, seen_ids, dlast, fresh>>
    /\ UNCHANGED <<svars, fvars, tasks, http>>

(***************************************************************************)
(* HTTPClient.get: the body of the method, and the tenacity retry          *)
(* controller that the @retry decorator wraps around it.                   *)
(***************************************************************************)
Urls == {"u1", "u2"}

\* what the transport does with one request: a response with its status code
\* and ETag header, or an httpx exception
Replies ==
    [kind : {"response"}, status : {200, 304, 401, 403, 429, 500}, etag : {"None", "e1"}]
        \cup [kind : {"exception"}, class : {"ConnectError", "ReadTimeout"}]

\* the exception classes involved and their direct base class
BaseOf(class) ==
    CASE class = "ConnectError" -> "TransportError"
      [] class = "ReadTimeout" -> "TimeoutException"
      [] class = "TimeoutException" -> "TransportError"
      [] class = "TransportError" -> "RequestError"
      [] class = "RequestError" -> "HTTPError"
      [] class = "HTTPStatusError" -> "HTTPError"
      [] class = "HTTPError" -> "Exception"
      [] class = "AdapterError" -> "Exception"
      [] OTHER -> "object"

RECURSIVE IsInstance(_, _)
IsInstance(class, base) ==
    IF class = base THEN TRUE
    ELSE IF class \in {"object", "none"} THEN FALSE
    ELSE IsInstance(BaseOf(class), base)

NoException == [class |-> "none", error_type |-> "none"]
AdapterError(error_type) == [class |-> "AdapterError", error_type |-> error_type]

stop_after_attempt == 3

\* the statements of get after rate_limiter.acquire: the request headers, the
\* reply of the transport, and what the method returns or raises
GetBody(etag_cache, url, use_cache, reply) ==
    LET if_none_match == IF use_cache /\ etag_cache[url] # "None"
                         THEN etag_cache[url] ELSE "None"
        stored == IF reply.kind = "response" /\ reply.status # 304 /\ reply.etag # "None"
                  THEN [etag_cache EXCEPT ![url] = reply.etag]
                  ELSE etag_cache
        raised ==
            IF reply.kind = "exception"
            THEN IF IsInstance(reply.class, "TimeoutException") THEN AdapterError("TIMEOUT")
                 ELSE IF IsInstance(reply.class, "TransportError")
                      THEN AdapterError("NETWORK_ERROR")
                      ELSE [class |-> reply.class, error_type |-> "none"]
            ELSE CASE reply.status = 304 -> NoException
                   [] reply.status = 429 -> AdapterError("RATE_LIMITED")
                   [] reply.status = 401 -> AdapterError("UNAUTHORIZED")
                   [] reply.status = 403 -> AdapterError("BLOCKED_BY_ROBOTS")
                   [] reply.status >= 400 -> [class |-> "HTTPStatusError", error_type |-> "none"]
                   [] OTHER -> NoException
    IN [if_none_match |-> if_none_match, etag_cache |-> stored, raised |-> raised]

\* HTTPClient() with RateLimiter(), before any call
NewHTTPClient ==
    [pc |-> "idle", gets |-> 0, url |-> "u1", use_cache |-> TRUE,
     etag_cache |-> [u \in Urls |-> "None"],
     last_request |-> [u \in Urls |-> 0], acquired |-> 0,
     attempt |-> 0, acquires |-> 0, requests |-> 0, if_none_match |-> "None",
     transport |-> "none", raised |-> NoException, outcome |-> NoException]

\* a caller awaits client.get(url, use_cache=use_cache): the retry controller
\* starts the first attempt
Get(url, use_cache) ==
    /\ http.pc \in {"idle", "done"}
    /\ http.gets < MaxGets
    /\ http' = [http EXCEPT !.pc = "acquire", !.gets = @ + 1, !.url = url,
                            !.use_cache = use_cache, !.attempt = 1, !.acquires = 0,
                            !.requests = 0, !.if_none_match = "None",
                            !.transport = "none", !.raised = NoException,
                            !.outcome = NoException]
    /\ UNCHANGED <<dvars, svars, fvars, tasks, threads>>

\* await self.rate_limiter.acquire(url): the time of this request becomes the
\* last request of the domain (time counted in acquisitions)
Acquire ==
    /\ http.pc = "acquire"
    /\ http' = [http EXCEPT !.pc = "request", !.acquires = @ + 1, !.acquired = @ + 1,
                            !.last_request[http.url] = http.acquired + 1]
    /\ UNCHANGED <<dvars, svars, fvars, tasks, threads>>

\* the rest of the method body: the request is sent and the reply handled
Request(reply) ==
    /\ http.pc = "request"
    /\ LET body == GetBody(http.etag_cache, http.url, http.use_cache, reply)
       IN http' = [http EXCEPT !.pc = "attempted", !.requests = @ + 1,
                               !.if_none_match = body.if_none_match,
                               !.etag_cache = body.etag_cache,
                               !.transport = IF reply.kind = "exception"
                                             THEN reply.class ELSE "none",
                               !.raised = body.raised]
    /\ UNCHANGED <<dvars, svars, fvars, tasks, threads>>

\* the retry controller after an attempt: retry_if_exception_type looks at the
\* exception that left the method, stop_after_attempt at the attempt number
AfterAttempt ==
    /\ http.pc = "attempted"
    /\ IF http.raised.class # "none" /\ IsInstance(http.raised.class, "TransportError")
       THEN IF http.attempt >= stop_after_attempt
            THEN http' = [http EXCEPT !.pc = "done",
                                      !.outcome = [class |-> "RetryError",
                                                   error_type |-> "none"]]
            ELSE http' = [http EXCEPT !.pc = "acquire", !.attempt = @ + 1]
       ELSE http' = [http EXCEPT !.pc = "done", !.outcome = http.raised]
    /\ UNCHANGED <<dvars, svars, fvars, tasks, threads>>

(***************************************************************************)
(* Specifications: one per component, the other components idle.           *)
(***************************************************************************)
\* Deduplicator(similarity_threshold, job_exists_fn); no Scorer activity
InitDedup ==
    /\ similarity_threshold \in Thresholds
    /\ job_exists_fn \in ExistsFns
    /\ seen_ids = NewSession.seen_ids
    /\ seen_hashes = NewSession.seen_hashes
    /\ passed = {}
    /\ accepted = {}
    /\ dlast = NoDedupOp
    /\ fresh = [active |-> FALSE, cleared |-> FALSE, seen_ids |-> NewSession.seen_ids,
                seen_hashes |-> NewSession.seen_hashes]
    /\ profile = P1
    /\ embedding_provider = EmbeddingProvider("NoEmbeddingProvider", "ok")
    /\ profile_embedding = "None"
    /\ slast = NoScoreOp
    /\ profile_embeds = 0
    /\ flast = NoFunctionOp
    /\ tasks = NoTasks
    /\ http = NewHTTPClient
    /\ threads = NoThreads

\* Scorer(profile, embedding_provider); no Deduplicator activity
InitScorer ==
    /\ profile \in Profiles
    /\ embedding_provider \in {EmbeddingProvider("NoEmbeddingProvider", "ok"),
                               EmbeddingProvider("Other", "ok")}
    /\ profile_embedding = "None"
    /\ slast = NoScoreOp
    /\ profile_embeds = 0
    /\ similarity_threshold = Rat(85, 100)
    /\ job_exists_fn = [bound |-> FALSE, ids |-> {}]
    /\ seen_ids = NewSession.seen_ids
    /\ seen_hashes = NewSession.seen_hashes
    /\ passed = {}
    /\ accepted = {}
    /\ dlast = NoDedupOp
    /\ fresh = [active |-> FALSE, cleared |-> FALSE, seen_ids |-> NewSession.seen_ids,
                seen_hashes |-> NewSession.seen_hashes]
    /\ flast = NoFunctionOp
    /\ tasks = NoTasks
    /\ http = NewHTTPClient
    /\ threads = NoThreads

\* the module-level functions of dedup.py, called on their own; no object exists
InitFunctions ==
    /\ flast = NoFunctionOp
    /\ tasks = NoTasks
    /\ http = NewHTTPClient
    /\ threads = NoThreads
    /\ similarity_threshold = Rat(85, 100)
    /\ job_exists_fn = [bound |-> FALSE, ids |-> {}]
    /\ seen_ids = NewSession.seen_ids
    /\ seen_hashes = NewSession.seen_hashes
    /\ passed = {}
    /\ accepted = {}
    /\ dlast = NoDedupOp
    /\ fresh = [active |-> FALSE, cleared |-> FALSE, seen_ids |-> NewSession.seen_ids,
                seen_hashes |-> NewSession.seen_hashes]
    /\ profile = P1
    /\ embedding_provider = EmbeddingProvider("NoEmbeddingProvider", "ok")
    /\ profile_embedding = "None"
    /\ slast = NoScoreOp
    /\ profile_embeds = 0

\* one fresh Scorer and MaxTasks coroutines about to call score on it
InitConcurrentScore ==
    /\ profile \in Profiles
    /\ embedding_provider \in {EmbeddingProvider("NoEmbeddingProvider", "ok"),
                               EmbeddingProvider("Other", "ok"),
                               EmbeddingProvider("Other", "embed_empty")}
    /\ profile_embedding = "None"
    /\ slast = NoScoreOp
    /\ profile_embeds = 0
    /\ tasks = NoTasks
    /\ http = NewHTTPClient
    /\ threads = NoThreads
    /\ flast = NoFunctionOp
    /\ similarity_threshold = Rat(85, 100)
    /\ job_exists_fn = [bound |-> FALSE, ids |-> {}]
    /\ seen_ids = NewSession.seen_ids
    /\ seen_hashes = NewSession.seen_hashes
    /\ passed = {}
    /\ accepted = {}
    /\ dlast = NoDedupOp
    /\ fresh = [active |-> FALSE, cleared |-> FALSE, seen_ids |-> NewSession.seen_ids,
                seen_hashes |-> NewSession.seen_hashes]

\* one new Deduplicator shared by MaxThreads threads
InitConcurrentDedup ==
    /\ similarity_threshold \in Thresholds
    /\ job_exists_fn \in ExistsFns
    /\ seen_ids = NewSession.seen_ids
    /\ seen_hashes = NewSession.seen_hashes
    /\ passed = {}
    /\ accepted = {}
    /\ dlast = NoDedupOp
    /\ fresh = [active |-> FALSE, cleared |-> FALSE, seen_ids |-> NewSession.seen_ids,
                seen_hashes |-> NewSession.seen_hashes]
    /\ threads = NoThreads
    /\ tasks = NoTasks
    /\ http = NewHTTPClient
    /\ flast = NoFunctionOp
    /\ profile = P1
    /\ embedding_provider = EmbeddingProvider("NoEmbeddingProvider", "ok")
    /\ profile_embedding = "None"
    /\ slast = NoScoreOp
    /\ profile_embeds = 0

DedupNext ==
    \/ \E job \in DedupJobs : IsDuplicate(job)
    \/ \E jobs \in JobLists : Dedupe(jobs)
    \/ Reset
    \/ DedupReturn

\* a Deduplicator given postings whose fields contain ':'
DedupKeysNext ==
    \/ \E job \in KeyJobs : IsDuplicate(job)
    \/ \E jobs \in KeyLists : Dedupe(jobs)
    \/ Reset
    \/ DedupReturn

ScorerNext ==
    \/ \E job \in ScoreJobs : Score(job)
    \/ \E jobs \in Batches, min_score \in MinScores : ScoreBatch(jobs, min_score)
    \/ \E mode \in ProviderModes : ProviderChange(mode)
    \/ ScorerReturn

FunctionsNext ==
    \/ \E text \in Texts : NormalizeText(text)
    \/ \E bits \in Widths : \E hash1, hash2 \in Fingerprints(bits) :
          SimhashSimilarity(hash1, hash2, bits)
    \/ \E text \in SimhashTexts, bits \in Widths : Simhash(text, bits)
    \/ FunctionReturn

ConcurrentScoreNext ==
    \/ \E t \in Tasks, job \in ConcurrentJobs : TaskStart(t, job)
    \/ \E t \in Tasks : ProfileEmbedReturns(t)
    \/ \E t \in Tasks : JobEmbedReturns(t)

ConcurrentDedupNext ==
    \/ \E t \in Threads, job \in ThreadJobs : ThreadExactCheck(t, job)
    \/ \E t \in Threads : ThreadExternalCheck(t)
    \/ \E t \in Threads : ThreadFuzzyCheck(t)
    \/ \E t \in Threads : ThreadAddId(t)
    \/ \E t \in Threads : ThreadSetHash(t)

HttpNext ==
    \/ \E url \in Urls, use_cache \in BOOLEAN : Get(url, use_cache)
    \/ Acquire
    \/ \E reply \in Replies : Request(reply)
    \/ AfterAttempt

SpecDedup == InitDedup /\ [][DedupNext]_vars
SpecDedupKeys == InitDedup /\ [][DedupKeysNext]_vars
SpecScorer == InitScorer /\ [][ScorerNext]_vars
SpecFunctions == InitFunctions /\ [][FunctionsNext]_vars
SpecConcurrentScore == InitConcurrentScore /\ [][ConcurrentScoreNext]_vars
SpecConcurrentDedup == InitConcurrentDedup /\ [][ConcurrentDedupNext]_vars
SpecHttp == InitFunctions /\ [][HttpNext]_vars

(***************************************************************************)
(* Properties of the Deduplicator (SpecDedup).                             *)
(***************************************************************************)
\* the is_duplicate calls of the step just taken that came before call i
EarlierCalls(calls, i) == SubSeq(calls, 1, i - 1)

\* C1: within one session (no reset in between), once is_duplicate has returned
\* False for a posting, every later is_duplicate call on a posting with the same
\* (company, source_system, source_job_id) returns True, whatever its other fields
\* and whatever calls came in between.  `passed` holds the identities that passed
\* since the last reset; the calls of a step are those of one is_duplicate or of
\* one dedupe.
C1_SameIdentityIsDuplicate ==
    [][dlast'.op \in {"is_duplicate", "dedupe"} =>
        \A i \in 1..Len(dlast'.calls) :
            Identity(dlast'.calls[i].job) \in passed \cup PassedIn(EarlierCalls(dlast'.calls, i))
                => dlast'.calls[i].result]_vars

\* C1 happens: J1 passed, and a later call on J2 (same identity, another title,
\* another fuzzy key, not known externally) returned True
C1_Witness ==
    /\ dlast.op = "is_duplicate"
    /\ dlast.jobs = <<"J2">>
    /\ dlast.calls[1].result
    /\ Identity("J2") \in passed
    /\ FuzzyKeyOf["J2"] \notin DOMAIN seen_hashes
    /\ FuzzyKeyOf["J1"] \in DOMAIN seen_hashes
    /\ ~ExistsExternally(job_exists_fn, "J2")

\* the three ways of being a duplicate, on the session state before the call
KnownExactly(job) == ExactKeyOf[job] \in seen_ids
KnownExternally(job) == job_exists_fn.bound /\ JobIdOf[job] \in job_exists_fn.ids
KnownFuzzily(job) ==
    /\ FuzzyKeyOf[job] \in DOMAIN seen_hashes
    /\ RLeq(similarity_threshold,
            simhash_similarity(ContentHashOf[job], seen_hashes[FuzzyKeyOf[job]], hash_bits))

\* C2: is_duplicate(job) returns True iff the exact key is in the seen-set, or the
\* posting exists externally, or a fingerprint is stored under its fuzzy key whose
\* similarity reaches similarity_threshold (>=); otherwise it returns False and
\* records the exact key and fuzzy key -> fingerprint.
C2_IsDuplicateIff ==
    [][dlast'.op = "is_duplicate" =>
        LET job == dlast'.jobs[1]
            dup == KnownExactly(job) \/ KnownExternally(job) \/ KnownFuzzily(job)
        IN /\ dlast'.calls[1].result = dup
           /\ ~dup => /\ seen_ids' = seen_ids \cup {ExactKeyOf[job]}
                      /\ DOMAIN seen_hashes' = DOMAIN seen_hashes \cup {FuzzyKeyOf[job]}
                      /\ seen_hashes'[FuzzyKeyOf[job]] = ContentHashOf[job]
                      /\ \A k \in DOMAIN seen_hashes \ {FuzzyKeyOf[job]} :
                            seen_hashes'[k] = seen_hashes[k]]_vars

\* C2 happens at the boundary: J4 is a duplicate only by the fuzzy check, with a
\* similarity to the stored fingerprint equal to the threshold (0.75)
C2_Witness ==
    /\ dlast.op = "is_duplicate"
    /\ dlast.jobs = <<"J4">>
    /\ dlast.calls[1].result
    /\ ~KnownExactly("J4")
    /\ ~KnownExternally("J4")
    /\ FuzzyKeyOf["J4"] \in DOMAIN seen_hashes
    /\ simhash_similarity(ContentHashOf["J4"], seen_hashes[FuzzyKeyOf["J4"]], hash_bits)
           = similarity_threshold

\* the verdicts of is_duplicate over a list processed left to right, the session
\* state updated after each posting
RECURSIVE Verdicts(_, _, _, _, _)
Verdicts(threshold, exists_fn, ids, hashes, jobs) ==
    IF jobs = <<>> THEN <<>>
    ELSE LET r == is_duplicate(threshold, exists_fn, ids, hashes, Head(jobs))
         IN <<r.result>> \o Verdicts(threshold, exists_fn, r.seen_ids, r.seen_hashes,
                                     Tail(jobs))

\* the postings of a list whose verdict is False, in the order of the list
RECURSIVE Kept(_, _)
Kept(jobs, verdicts) ==
    IF jobs = <<>> THEN <<>>
    ELSE (IF Head(verdicts) THEN <<>> ELSE <<Head(jobs)>>)
         \o Kept(Tail(jobs), Tail(verdicts))

\* dedupe(jobs) returned the postings whose verdict is False, in input order; the
\* list of the test (5 distinct postings and a copy of the first) gives its 5
\* postings on a new session without an external existence check
DedupeFilters(jobs, verdicts, unique, ids, hashes, exists_fn) ==
    /\ unique = Kept(jobs, verdicts)
    /\ (jobs = TestList /\ ids = {} /\ hashes = EmptyDict /\ ~exists_fn.bound)
          => unique = <<"T0", "T1", "T2", "T3", "T4">>

\* C3 as claimed: dedupe(jobs) returns, in input order, exactly the postings for
\* which is_duplicate returned False when the list is processed left to right with
\* the session state updated after each posting; so among the postings of the list
\* that share an exact key at most the first one is kept (no posting is kept that
\* comes after another posting of the list with its exact key).
C3_AtMostTheFirstIsKept ==
    [][dlast'.op = "dedupe" =>
        LET jobs == dlast'.jobs
            verdicts == Verdicts(similarity_threshold, job_exists_fn,
                                 seen_ids, seen_hashes, jobs)
        IN /\ DedupeFilters(jobs, verdicts, dlast'.unique,
                            seen_ids, seen_hashes, job_exists_fn)
           /\ \A i \in 1..Len(jobs) :
                 ~verdicts[i] => \A j \in 1..(i - 1) :
                                    ExactKeyOf[jobs[j]] # ExactKeyOf[jobs[i]]]_vars

\* C3 (amended): dedupe(jobs) returns, in input order, exactly the postings for
\* which is_duplicate returned False when the list is processed left to right with
\* the session state updated after each posting; among the postings of the list
\* that share an exact key at most one is kept, and every one before it in the
\* list was itself rejected as a duplicate.
C3_DedupeKeepsAtMostOne ==
    [][dlast'.op = "dedupe" =>
        LET jobs == dlast'.jobs
            verdicts == Verdicts(similarity_threshold, job_exists_fn,
                                 seen_ids, seen_hashes, jobs)
        IN /\ DedupeFilters(jobs, verdicts, dlast'.unique,
                            seen_ids, seen_hashes, job_exists_fn)
           /\ \A i \in 1..Len(jobs) :
                 ~verdicts[i] => \A j \in 1..(i - 1) :
                                    ExactKeyOf[jobs[j]] = ExactKeyOf[jobs[i]]
                                        => verdicts[j]
           /\ \A i, j \in 1..Len(dlast'.unique) :
                 i < j => ExactKeyOf[dlast'.unique[i]] # ExactKeyOf[dlast'.unique[j]]]_vars

\* C3 happens: of two postings of one list with the same exact key the first was
\* rejected (a fuzzy duplicate of a posting seen earlier) and the second kept
C3_Witness ==
    /\ dlast.op = "dedupe"
    /\ dlast.jobs = <<"J1", "J2">>
    /\ ExactKeyOf["J1"] = ExactKeyOf["J2"]
    /\ dlast.calls = <<[job |-> "J1", result |-> TRUE], [job |-> "J2", result |-> FALSE]>>
    /\ dlast.unique = <<"J2">>

\* C4: after reset(), every sequence of is_duplicate/dedupe calls gives the same
\* results as the same sequence on a newly constructed Deduplicator with the same
\* similarity threshold and the same external existence check (`fresh`, which is
\* given every call made since the last reset).
C4_ResetIsFresh ==
    (fresh.active /\ dlast.op \in {"is_duplicate", "dedupe"}) =>
        /\ dlast.calls = dlast.fresh_calls
        /\ dlast.unique = dlast.fresh_unique
        /\ seen_ids = fresh.seen_ids
        /\ seen_hashes = fresh.seen_hashes

\* C4 happens: reset() cleared a session that had seen postings, and a dedupe
\* after it kept one posting and dropped another
C4_Witness ==
    /\ fresh.active
    /\ fresh.cleared
    /\ dlast.op = "dedupe"
    /\ \E i, j \in 1..Len(dlast.calls) : dlast.calls[i].result /\ ~dlast.calls[j].result
    /\ dlast.calls = dlast.fresh_calls

(***************************************************************************)
(* Properties of the scorers (SpecScorer).                                 *)
(***************************************************************************)
\* the last Scorer operation scored postings
Scored == slast.op \in {"score", "score_batch"}

\* the must-not phrases of the profile that match the posting's searchable text,
\* by their position in the profile
MustNotHitsIn(p, j) ==
    {m \in 1..Len(p.must_not_keywords) :
        PatternSearch(p.must_not_keywords[m], get_searchable_text(Posting[j]))}
MustNotHitsUnder(p) ==
    LET OfPosting(j) == MustNotHitsIn(p, j) IN Tabulate(OfPosting, Jobs)
MustNotHitsOf == Tabulate(MustNotHitsUnder, Profiles)
MustNotHits(p, j) == MustNotHitsOf[p][j]
Excluded(p, j) == MustNotHits(p, j) # {}
FirstHit(p, j) == CHOOSE m \in MustNotHits(p, j) : \A n \in MustNotHits(p, j) : m <= n
\* "Excluded: contains '<pattern>'" for the first must-not phrase that matches
ExcludedReason(p, j) == Reason("Excluded", PatternSource(p.must_not_keywords[FirstHit(p, j)]))

\* what the posting matches besides
RoleMatches(p, j) ==
    \E r \in 1..Len(p.desired_roles) :
        PatternSearch(p.desired_roles[r], Lower(Posting[j].title))
MustHaveHits(p, j) ==
    {m \in 1..Len(p.must_have_keywords) :
        PatternSearch(p.must_have_keywords[m], get_searchable_text(Posting[j]))}
LocationMatches(p, j) ==
    /\ Posting[j].location # <<>>
    /\ \E l \in 1..Len(p.preferred_locations) :
          Contains(Lower(Posting[j].location), Lower(p.preferred_locations[l]))
RemoteMatches(p, j) == Posting[j].remote_type = p.remote_preference

\* C5: whenever a must-not phrase matches the posting's searchable text,
\* KeywordScorer.score returns exactly 0.0 with exactly one reason, the "Excluded"
\* reason of the first must-not phrase in profile order that matches, whatever
\* role, must-have, location or remote match the posting also has.
C5_MustNotExcludes ==
    Scored =>
        \A i \in 1..Len(slast.jobs) :
            Excluded(profile, slast.jobs[i]) =>
                /\ slast.keyword[i].score = RZero
                /\ slast.keyword[i].reasons =
                      <<ExcludedReason(profile, slast.jobs[i])>>

\* C5 happens: J2 under P1 matches both must-not phrases, and a role, a must-have
\* keyword, a location and the remote preference as well; the reason names "ux",
\* the first of the profile
C5_Witness ==
    /\ slast.op = "score"
    /\ slast.jobs = <<"J2">>
    /\ profile = P1
    /\ MustNotHits(P1, "J2") = {1, 2}
    /\ RoleMatches(P1, "J2") /\ MustHaveHits(P1, "J2") # {}
    /\ LocationMatches(P1, "J2") /\ RemoteMatches(P1, "J2")
    /\ slast.keyword[1] = [score |-> RZero, reasons |-> <<Reason("Excluded", <<"\\", "b", "u", "x", "\\", "b">>)>>]

\* C6: for a posting that matches a must-not phrase, Scorer.score returns
\* final_score = keyword_score = vector_score = recency_score = 0 with the
\* exclusion reason, and computes no other signal: the recency scorer and the
\* embedding provider (embed for the profile or the job, similarity) are not
\* invoked for it.
C6_ExcludedShortCircuits ==
    Scored =>
        /\ \A i \in 1..Len(slast.jobs) :
              Excluded(profile, slast.jobs[i]) =>
                  slast.all[i] =
                      ScoredJobPosting(slast.jobs[i], RZero, RZero, RZero, RZero,
                                       <<ExcludedReason(profile, slast.jobs[i])>>)
        /\ (\A i \in 1..Len(slast.jobs) : Excluded(profile, slast.jobs[i])) =>
              /\ slast.events = [i \in 1..Len(slast.jobs) |-> "keyword"]
              /\ profile_embedding = slast.cache_before

\* C6 happens: a real provider that answers, no profile embedding cached yet, and
\* the excluded J2 scored without a call of the recency scorer or of the provider
C6_Witness ==
    /\ slast.op = "score"
    /\ slast.jobs = <<"J2">>
    /\ profile = P1
    /\ Excluded(P1, "J2")
    /\ embedding_provider = EmbeddingProvider("Other", "ok")
    /\ slast.cache_before = "None"
    /\ profile_embedding = "None"
    /\ slast.events = <<"keyword">>
    /\ slast.result[1].final_score = RZero

\* the keyword score of the claim: 0.4 for a role match, 0.4 * matched / total
\* over the must-have phrases or a flat 0.2 without any, 0.1 for a preferred
\* location, 0.1 for the remote preference
ClaimedKeywordScoreFor(p, j) ==
    RAdd(RAdd(RAdd(IF RoleMatches(p, j) THEN Rat(4, 10) ELSE RZero,
                   IF p.must_have_keywords # <<>>
                   THEN Rat(4 * Cardinality(MustHaveHits(p, j)),
                            10 * Len(p.must_have_keywords))
                   ELSE Rat(2, 10)),
              IF LocationMatches(p, j) THEN Rat(1, 10) ELSE RZero),
         IF RemoteMatches(p, j) THEN Rat(1, 10) ELSE RZero)

ClaimedKeywordScoresUnder(p) ==
    LET OfPosting(j) == ClaimedKeywordScoreFor(p, j) IN Tabulate(OfPosting, Jobs)
ClaimedKeywordScoreOf == Tabulate(ClaimedKeywordScoresUnder, Profiles)
ClaimedKeywordScore(p, j) == ClaimedKeywordScoreOf[p][j]

\* the reasons of one kind
ReasonsOfKind(reasons, kind) == {r \in 1..Len(reasons) : reasons[r].kind = kind}

\* C7: for a posting that matches no must-not phrase, the keyword score is 0.4 if
\* some desired-role phrase matches the title, plus 0.4 * matched/total over the
\* must-have phrases (a flat 0.2 when there are none), plus 0.1 if the location
\* contains a preferred location, plus 0.1 if remote_type equals the remote
\* preference; it is in [0,1]; at most one role reason and at most one location
\* reason are emitted.
C7_KeywordScoreFormula ==
    Scored =>
        \A i \in 1..Len(slast.jobs) :
            ~Excluded(profile, slast.jobs[i]) =>
                /\ slast.keyword[i].score = ClaimedKeywordScore(profile, slast.jobs[i])
                /\ In01(slast.keyword[i].score)
                /\ Cardinality(ReasonsOfKind(slast.keyword[i].reasons, "Role match")) <= 1
                /\ Cardinality(ReasonsOfKind(slast.keyword[i].reasons, "Location")) <= 1

\* C7 happens: J7 under P1 matches a role, both must-have phrases, both preferred
\* locations and the remote preference: 1.0, with one location reason
C7_Witness ==
    /\ slast.op = "score"
    /\ slast.jobs = <<"J7">>
    /\ profile = P1
    /\ ~Excluded(P1, "J7")
    /\ Cardinality(MustHaveHits(P1, "J7")) = 2
    /\ \A l \in 1..Len(P1.preferred_locations) :
          Contains(Lower(Posting["J7"].location), Lower(P1.preferred_locations[l]))
    /\ slast.keyword[1].score = ROne
    /\ Cardinality(ReasonsOfKind(slast.keyword[1].reasons, "Location")) = 1
    /\ Cardinality(ReasonsOfKind(slast.keyword[1].reasons, "Role match")) = 1

\* the weighted sum of the three component scores a ScoredJobPosting reports
WeightedSum(p, s) ==
    RAdd(RAdd(RMul(p.vector_weight, s.vector_score),
              RMul(p.keyword_weight, s.keyword_score)),
         RMul(p.recency_weight, s.recency_score))

\* C8: for every posting that is not excluded, final_score equals
\* vector_weight*vector_score + keyword_weight*keyword_score +
\* recency_weight*recency_score, over the three component scores reported in the
\* same ScoredJobPosting.
C8_FinalIsWeightedSum ==
    Scored =>
        \A i \in 1..Len(slast.jobs) :
            ~Excluded(profile, slast.jobs[i]) =>
                slast.all[i].final_score = WeightedSum(profile, slast.all[i])

\* C8 happens: J1 under P1 with a real provider: three different component
\* scores (0.6, 0.8, 0.963) under three different weights give 0.71445
C8_Witness ==
    /\ slast.op = "score"
    /\ slast.jobs = <<"J1">>
    /\ profile = P1
    /\ ~Excluded(P1, "J1")
    /\ slast.result[1].vector_score = Rat(3, 5)
    /\ slast.result[1].keyword_score = Rat(4, 5)
    /\ slast.result[1].recency_score = Rat(963, 1000)
    /\ slast.result[1].final_score = Rat(14289, 20000)

\* the weights of the profile are non-negative and sum to at most 1
ConvexWeights(p) ==
    /\ RLeq(RZero, p.vector_weight)
    /\ RLeq(RZero, p.keyword_weight)
    /\ RLeq(RZero, p.recency_weight)
    /\ RLeq(RAdd(RAdd(p.vector_weight, p.keyword_weight), p.recency_weight), ROne)

\* the three component scores of a ScoredJobPosting lie in [0,1]
ComponentsIn01(s) ==
    In01(s.keyword_score) /\ In01(s.recency_score) /\ In01(s.vector_score)

\* C9 as claimed: for every profile, every embedding provider and every posting,
\* the keyword_score, recency_score, vector_score and final_score returned by
\* Scorer.score all lie in [0,1].
C9_AllScoresIn01 ==
    Scored =>
        \A i \in 1..Len(slast.all) :
            ComponentsIn01(slast.all[i]) /\ In01(slast.all[i].final_score)

\* C9 (amended): for every profile, every posting and every embedding provider
\* whose similarity is within its documented range [-1,1], keyword_score,
\* recency_score and vector_score lie in [0,1]; final_score lies in [0,1] when
\* the weights of the profile are non-negative and sum to at most 1.
C9_ScoresIn01UnderConvexWeights ==
    Scored =>
        \A i \in 1..Len(slast.all) :
            /\ ComponentsIn01(slast.all[i])
            /\ ConvexWeights(profile) => In01(slast.all[i].final_score)

\* C9 happens: under P1 (weights 0.55, 0.30, 0.15) a real provider reported the
\* similarity -1 for J6, which gives the vector score 0, and the final score
\* 0.195 is in [0,1]
C9_Witness ==
    /\ slast.op = "score"
    /\ slast.jobs = <<"J6">>
    /\ profile = P1
    /\ ConvexWeights(P1)
    /\ slast.events = <<"keyword", "recency", "embed_profile", "embed_job", "similarity">>
    /\ SimilarityOf["J6"] = Rat(-1, 1)
    /\ slast.result[1].vector_score = RZero
    /\ slast.result[1].final_score = Rat(195, 1000)

\* how often x occurs in the sequence
Occurrences(seq, x) == Cardinality({i \in 1..Len(seq) : seq[i] = x})

\* the threshold of the claim: min_score whenever it is given, the profile's
\* default only for None
ClaimedThreshold(p, min_score) ==
    IF min_score = None THEN p.min_score_threshold ELSE min_score.value

\* C10: score_batch(jobs, min_score) scores every input posting once and returns
\* exactly those whose final_score >= threshold, the threshold being min_score
\* whenever it is given (an explicit 0.0 included) and profile.min_score_threshold
\* only for None; no posting is duplicated or invented.
C10_BatchKeepsThoseAtThreshold ==
    slast.op = "score_batch" =>
        LET reached(x) == RLeq(ClaimedThreshold(profile, slast.min_score), x.final_score)
            kept == SelectSeq(slast.all, reached)
        IN /\ Len(slast.all) = Len(slast.jobs)
           /\ \A i \in 1..Len(slast.jobs) : slast.all[i].job = slast.jobs[i]
           /\ Occurrences(slast.events, "keyword") = Len(slast.jobs)
           /\ Len(slast.result) = Len(kept)
           /\ \A i \in 1..Len(kept) :
                 Occurrences(slast.result, kept[i]) = Occurrences(kept, kept[i])
           /\ \A i \in 1..Len(slast.result) :
                 Occurrences(kept, slast.result[i]) = Occurrences(slast.result, slast.result[i])

\* C10 happens: with an explicit min_score of 0.0 a batch returned a posting that
\* is not excluded and scores below the profile's default threshold; the same
\* posting twice in the list is scored and returned twice
C10_Witness ==
    /\ slast.op = "score_batch"
    /\ slast.min_score = Given(RZero)
    /\ slast.jobs = <<"J6", "J6">>
    /\ ~Excluded(profile, "J6")
    /\ Len(slast.result) = 2
    /\ RLt(RZero, slast.result[1].final_score)
    /\ RLt(slast.result[1].final_score, profile.min_score_threshold)

\* the elements of a list of ScoredJobPosting with the given final_score, in order
WithFinalScore(scored, v) ==
    LET has(x) == x.final_score = v IN SelectSeq(scored, has)

\* C11: the list returned by score_batch is sorted by final_score in
\* non-increasing order, and the sort is stable: returned postings with equal
\* final_score appear in the same relative order as in the input list.
C11_SortedDescendingStable ==
    slast.op = "score_batch" =>
        /\ \A i, j \in 1..Len(slast.result) :
              i < j => RLeq(slast.result[j].final_score, slast.result[i].final_score)
        /\ \A i \in 1..Len(slast.result) :
              WithFinalScore(slast.result, slast.result[i].final_score)
                  = WithFinalScore(slast.all, slast.result[i].final_score)

\* C11 happens: J6 and J2 tie under P2 and are returned in their input order,
\* after J5, which came last in the input list and scores higher
C11_Witness ==
    /\ slast.op = "score_batch"
    /\ slast.jobs = TieBatch
    /\ profile = P2
    /\ \A i \in 1..3 : ~Excluded(P2, slast.jobs[i])
    /\ Len(slast.result) = 3
    /\ slast.result[1].job = "J5"
    /\ slast.result[2].job = "J6"
    /\ slast.result[3].job = "J2"
    /\ slast.result[2].final_score = slast.result[3].final_score
    /\ RLt(slast.result[2].final_score, slast.result[1].final_score)

\* C12: score_batch never returns a posting that matches a must-not phrase: for
\* every input list, every profile and every threshold in [0,1], each excluded
\* posting is absent from the result, while the non-excluded postings that reach
\* the threshold are present.
C12_ExcludedNeverReturned ==
    slast.op = "score_batch" =>
        /\ \A i \in 1..Len(slast.result) : ~Excluded(profile, slast.result[i].job)
        /\ \A i \in 1..Len(slast.all) :
              (/\ ~Excluded(profile, slast.jobs[i])
               /\ RLeq(ClaimedThreshold(profile, slast.min_score), slast.all[i].final_score))
                  => \E k \in 1..Len(slast.result) : slast.result[k] = slast.all[i]

\* C13: over the lifetime of one Scorer the provider's embed is invoked with the
\* profile text at most once, across any sequence of score and score_batch
\* calls, also when a provider call raises or returns an empty result.
C13_ProfileEmbeddedAtMostOnce == profile_embeds <= 1

\* a call of the provider raised for every non-excluded posting of the last
\* operation: the provider is a real one whose embed or similarity raises now,
\* and the profile embedding is not an empty one (with an empty one the provider
\* is not called for a posting)
ProviderFailed ==
    /\ embedding_provider.class # "NoEmbeddingProvider"
    /\ embedding_provider.mode \in {"embed_raises", "similarity_raises"}
    /\ profile_embedding # "empty"

\* C14: a failure of the embedding provider at call time (embed for the profile,
\* embed for the job, or similarity raising) does not propagate out of
\* Scorer.score: the posting gets vector_score = 0.5 with its keyword and recency
\* scores intact, and score_batch goes on to score every remaining posting.
C14_ProviderFailureIsNeutral ==
    (Scored /\ ProviderFailed) =>
        /\ Len(slast.all) = Len(slast.jobs)
        /\ \A i \in 1..Len(slast.jobs) :
              /\ slast.all[i].job = slast.jobs[i]
              /\ ~Excluded(profile, slast.jobs[i]) =>
                    /\ slast.all[i].vector_score = RHalf
                    /\ slast.all[i].keyword_score = ClaimedKeywordScore(profile, slast.jobs[i])
                    /\ slast.all[i].recency_score = RecencyScoreOf[slast.jobs[i]]
                    /\ slast.all[i].final_score = WeightedSum(profile, slast.all[i])

\* C14 happens: the profile embedding was cached, then embed raised for the job
\* text of J1 and again for that of J7; both got 0.5, their keyword scores (0.8
\* and 1.0) and recency scores intact, and both were scored
C14_Witness ==
    /\ slast.op = "score_batch"
    /\ slast.jobs = <<"J1", "J7">>
    /\ profile = P1
    /\ embedding_provider = EmbeddingProvider("Other", "embed_raises")
    /\ slast.cache_before = "vec"
    /\ slast.events = <<"keyword", "recency", "embed_job", "keyword", "recency", "embed_job">>
    /\ slast.all[1].vector_score = RHalf /\ slast.all[2].vector_score = RHalf
    /\ slast.all[1].keyword_score = Rat(4, 5) /\ slast.all[2].keyword_score = ROne
    /\ slast.all[1].recency_score = Rat(963, 1000) /\ slast.all[2].recency_score = RHalf

\* the calls of the embedding provider among the calls of an operation
ProviderCalls(events) ==
    {i \in 1..Len(events) : events[i] \in {"embed_profile", "embed_job", "similarity"}}

\* the profile text is empty: no desired role and no must-have keyword
EmptyProfileText(p) == p.desired_roles = <<>> /\ p.must_have_keywords = <<>>

\* C15: Scorer.score gives a non-excluded posting vector_score exactly 0.5 and
\* issues no embed call for the job text whenever the provider is the neutral
\* NoEmbeddingProvider (then no embed call at all) or the profile embedding is
\* empty (a profile without desired roles and must-have keywords, or a provider
\* that returned no vector for the profile).
C15_NeutralWithoutEmbedding ==
    Scored =>
        /\ (\/ embedding_provider.class = "NoEmbeddingProvider"
            \/ profile_embedding = "empty"
            \/ EmptyProfileText(profile)) =>
              /\ \A i \in 1..Len(slast.jobs) :
                    ~Excluded(profile, slast.jobs[i]) => slast.all[i].vector_score = RHalf
              /\ Occurrences(slast.events, "embed_job") = 0
        /\ embedding_provider.class = "NoEmbeddingProvider" =>
              ProviderCalls(slast.events) = {}
        /\ EmptyProfileText(profile) => ProviderCalls(slast.events) = {}

\* C15 happens: a real provider returned no vector for the profile text of P1;
\* J7, not excluded, got 0.5 and embed was not called for its text
C15_Witness ==
    /\ slast.op = "score"
    /\ slast.jobs = <<"J7">>
    /\ profile = P1
    /\ ~Excluded(P1, "J7")
    /\ embedding_provider = EmbeddingProvider("Other", "embed_empty")
    /\ slast.cache_before = "None"
    /\ profile_embedding = "empty"
    /\ slast.events = <<"keyword", "recency", "embed_profile">>
    /\ slast.result[1].vector_score = RHalf

\* the precision to which the model computes a square root
Milli == Rat(1, 1000)

\* s is 1 - sqrt(age / max_age) to that precision: with d = 1 - s,
\* d^2 <= age / max_age < (d + 0.001)^2
IsSqrtDecay(s, age_hours) ==
    LET d == RSub(ROne, s)
        x == Rat(age_hours, max_age_days * 24)
    IN /\ RLeq(RZero, d)
       /\ RLeq(RMul(d, d), x)
       /\ RLt(x, RMul(RAdd(d, Milli), RAdd(d, Milli)))

\* the age of the posting is strictly between 0 and max_age_days
AgeInside(j) ==
    /\ Posting[j].has_posted_at
    /\ 0 < Posting[j].age_hours
    /\ Posting[j].age_hours < max_age_days * 24

\* C16: RecencyScorer.score returns exactly 0.5 when posted_at is missing, 1.0
\* when the age is zero or negative, 0.0 when the age is >= max_age_days, and
\* otherwise 1 - sqrt(age/max_age_days), strictly between 0 and 1 and strictly
\* decreasing as the age grows; with max_age_days = 30 a posting 1 hour old
\* scores > 0.9 and one 25 days old scores < 0.3.
C16_RecencyScore ==
    Scored =>
        \A i \in 1..Len(slast.jobs) :
            ~Excluded(profile, slast.jobs[i]) =>
                LET j == slast.jobs[i]
                    s == slast.all[i].recency_score
                IN /\ ~Posting[j].has_posted_at => s = RHalf
                   /\ (Posting[j].has_posted_at /\ Posting[j].age_hours <= 0) => s = ROne
                   /\ (Posting[j].has_posted_at
                          /\ Posting[j].age_hours >= max_age_days * 24) => s = RZero
                   /\ AgeInside(j) =>
                         /\ IsSqrtDecay(s, Posting[j].age_hours)
                         /\ RLt(RZero, s) /\ RLt(s, ROne)
                         /\ \A k \in Jobs :
                               (AgeInside(k) /\ Posting[j].age_hours < Posting[k].age_hours)
                                   => RLt(RecencyScoreOf[k], s)
                   /\ (AgeInside(j) /\ Posting[j].age_hours = 1) => RLt(Rat(9, 10), s)
                   /\ (AgeInside(j) /\ Posting[j].age_hours = 25 * 24) => RLt(s, Rat(3, 10))

\* C16 happens: a batch scored J1 (1 hour old: 0.963) and J3 (25 days old: 0.088)
C16_Witness ==
    /\ slast.op = "score_batch"
    /\ slast.jobs = <<"J1", "J3">>
    /\ ~Excluded(profile, "J1") /\ ~Excluded(profile, "J3")
    /\ Posting["J1"].age_hours = 1 /\ Posting["J3"].age_hours = 25 * 24
    /\ slast.all[1].recency_score = Rat(963, 1000)
    /\ slast.all[2].recency_score = Rat(88, 1000)

\* a punctuation character of ASCII: printable, neither a letter, a digit nor whitespace
IsPunctuation(c) ==
    c \notin Range(UpperChars) \cup Range(LowerChars) \cup Digits /\ ~IsSpace(c)

Normalized == flast.op = "normalize_text"

\* no upper-case letter, no whitespace at either end, no two whitespace characters in a row
CleanCaseAndSpace(t) ==
    /\ \A i \in 1..Len(t) : t[i] \notin Range(UpperChars)
    /\ t # <<>> => ~IsSpace(t[1]) /\ ~IsSpace(t[Len(t)])
    /\ \A i \in 1..(Len(t) - 1) : ~(IsSpace(t[i]) /\ IsSpace(t[i + 1]))

DifferingBits(h1, h2, bits) == {i \in 0..(bits - 1) : (i \in h1) # (i \in h2)}

\* the bitwise complement of h at the given width
Complement(h, bits) == (0..(bits - 1)) \ h

\* C18: simhash_similarity(h1, h2, bits) equals 1 - popcount(h1 XOR h2)/bits; for
\* all h1, h2 of bits width it is symmetric, lies in [0,1], is 1.0 exactly when
\* h1 = h2 and 0.0 exactly when h2 is the bitwise complement of h1.
C18_SimilarityIsOneMinusHammingShare ==
    flast.op = "simhash_similarity" =>
        /\ REq(RAdd(flast.similarity,
                    Rat(Cardinality(DifferingBits(flast.hash1, flast.hash2, flast.bits)),
                        flast.bits)), ROne)
        /\ simhash_similarity(flast.hash2, flast.hash1, flast.bits) = flast.similarity
        /\ In01(flast.similarity)
        /\ flast.similarity = ROne <=> flast.hash1 = flast.hash2
        /\ flast.similarity = RZero <=> flast.hash2 = Complement(flast.hash1, flast.bits)

\* C18 happens: at the default width the fingerprints of J1 and J4 differ in 16
\* of 64 bits, and their similarity is 0.75
C18_Witness ==
    /\ flast.op = "simhash_similarity"
    /\ flast.bits = hash_bits
    /\ flast.hash1 = ContentHashOf["J1"]
    /\ flast.hash2 = ContentHashOf["J4"]
    /\ flast.hash1 # flast.hash2
    /\ flast.similarity = Rat(3, 4)

\* C19: JobPosting.id is a pure function of (company, source_system,
\* source_job_id): two postings that agree on these three fields have the same
\* id whatever their other fields are, repeated reads of id give the same value,
\* and this id is the value is_duplicate passes to the external existence check.
C19_IdIsFunctionOfIdentity ==
    dlast.op \in {"is_duplicate", "dedupe"} =>
        \A i \in 1..Len(dlast.calls) :
            /\ \A k \in 1..Len(dlast.asked[i]) :
                  dlast.asked[i][k] = JobId(Posting[dlast.calls[i].job])
            /\ \A j \in AllJobs :
                  Identity(j) = Identity(dlast.calls[i].job)
                      => JobIdOf[j] = JobId(Posting[dlast.calls[i].job])
            /\ (job_exists_fn.bound /\ ~dlast.calls[i].result) => Len(dlast.asked[i]) = 1

\* C19 happens: J1 and J2 agree on the three fields and differ in title,
\* location and description; one dedupe asked the database about both, with the
\* same id
C19_Witness ==
    /\ dlast.op = "dedupe"
    /\ dlast.jobs = <<"J1", "J2">>
    /\ Posting["J1"].title # Posting["J2"].title
    /\ Len(dlast.asked[1]) = 1 /\ Len(dlast.asked[2]) = 1
    /\ dlast.asked[1] = dlast.asked[2]
    /\ dlast.asked[1][1] = "e47a66bef9946dcd"

\* the greatest element of a non-empty set of numbers
Latest(S) == CHOOSE n \in S : \A m \in S : m <= n

\* the calls among the first i - 1 that returned False for a posting of fuzzy key k
AcceptedCallsBefore(calls, i, k) ==
    {n \in 1..(i - 1) : ~calls[n].result /\ FuzzyKeyOf[calls[n].job] = k}

\* what _seen_hashes should hold under fuzzy key k just before call i, given the
\* dict `hashes` before the first call: nothing (<<>>) or one fingerprint, that of
\* the latest posting of that key accepted so far
FingerprintBefore(hashes, calls, i, k) ==
    IF AcceptedCallsBefore(calls, i, k) # {}
    THEN <<ContentHashOf[calls[Latest(AcceptedCallsBefore(calls, i, k))].job]>>
    ELSE IF k \in DOMAIN hashes THEN <<hashes[k]>> ELSE <<>>

\* the fuzzy keys of the model's postings
FuzzyKeys == {FuzzyKeyOf[j] : j \in AllJobs}

\* the fingerprints held are those of the latest accepted posting of each fuzzy key
HoldsLatestFingerprints ==
    /\ DOMAIN seen_hashes = {FuzzyKeyOf[e] : e \in accepted}
    /\ \A k \in FuzzyKeys :
          FingerprintBefore(seen_hashes, dlast'.calls, Len(dlast'.calls) + 1, k)
              = IF k \in DOMAIN seen_hashes' THEN <<seen_hashes'[k]>> ELSE <<>>

\* call i was on a posting that is similar enough to another, earlier accepted
\* posting of its fuzzy key, and not similar enough to the latest accepted one
MissedByLatest(calls, i) ==
    LET job == calls[i].job
        before == accepted \cup AcceptedIn(EarlierCalls(calls, i))
        held == FingerprintBefore(seen_hashes, calls, i, FuzzyKeyOf[job])
    IN /\ \E e \in before \ {job} :
             /\ FuzzyKeyOf[e] = FuzzyKeyOf[job]
             /\ RLeq(similarity_threshold,
                     simhash_similarity(ContentHashOf[job], ContentHashOf[e], hash_bits))
       /\ held # <<>>
       /\ RLt(simhash_similarity(ContentHashOf[job], held[1], hash_bits),
              similarity_threshold)

\* call i was on a posting whose exact key was recorded, or that exists externally
KnownOtherwise(calls, i) ==
    \/ \E e \in accepted \cup AcceptedIn(EarlierCalls(calls, i)) :
          ExactKeyOf[e] = ExactKeyOf[calls[i].job]
    \/ ExistsExternally(job_exists_fn, calls[i].job)

\* C20 as stated: the Deduplicator holds at most one fingerprint per fuzzy key,
\* that of the most recent posting with that key for which is_duplicate returned
\* false, and a posting >= threshold similar to an earlier accepted posting of
\* its fuzzy key but below threshold against the latest accepted one is reported
\* as not a duplicate.
C20_MissedByLatestIsNotDuplicate ==
    [][dlast'.op \in {"is_duplicate", "dedupe"} =>
        /\ HoldsLatestFingerprints
        /\ \A i \in 1..Len(dlast'.calls) :
              MissedByLatest(dlast'.calls, i) => ~dlast'.calls[i].result]_vars

\* C20, amended: the Deduplicator holds at most one fingerprint per fuzzy key,
\* that of the most recent posting with that key for which is_duplicate returned
\* false, and the fuzzy check compares only against it: a posting >= threshold
\* similar to an earlier accepted posting of its fuzzy key but below threshold
\* against the latest accepted one is reported as not a duplicate, unless its
\* exact key has been recorded or it exists externally.
C20_OnlyLatestFingerprintCompared ==
    [][dlast'.op \in {"is_duplicate", "dedupe"} =>
        /\ HoldsLatestFingerprints
        /\ \A i \in 1..Len(dlast'.calls) :
              (MissedByLatest(dlast'.calls, i) /\ ~KnownOtherwise(dlast'.calls, i))
                  => ~dlast'.calls[i].result]_vars

\* C20 happens: J1 then J4 were accepted under the fuzzy key "dev:" (threshold
\* 0.85, similarity 0.75); J3 has the words of J1 (similarity 1.0) and is 0.75
\* similar to J4, whose fingerprint replaced that of J1: J3 is accepted
C20_Witness ==
    /\ dlast.op = "is_duplicate"
    /\ dlast.jobs = <<"J3">>
    /\ ~dlast.calls[1].result
    /\ {"J1", "J4", "J3"} \subseteq accepted
    /\ FuzzyKeyOf["J1"] = FuzzyKeyOf["J3"] /\ FuzzyKeyOf["J4"] = FuzzyKeyOf["J3"]
    /\ RLeq(similarity_threshold,
            simhash_similarity(ContentHashOf["J3"], ContentHashOf["J1"], hash_bits))
    /\ RLt(simhash_similarity(ContentHashOf["J3"], ContentHashOf["J4"], hash_bits),
           similarity_threshold)
    /\ seen_hashes[FuzzyKeyOf["J3"]] = ContentHashOf["J3"]

\* C21: the first computation of the profile embedding is single-flight: when
\* several Scorer.score calls on the same fresh Scorer are in flight
\* concurrently, the provider's embed is invoked for the profile text by only one
\* of them.
C21_ProfileEmbeddingSingleFlight ==
    Cardinality({t \in Tasks : tasks[t].embedded}) <= 1

\* C22: when two threads call is_duplicate concurrently on two postings with the
\* same exact key (not seen before and not existing externally), the check of the
\* seen-set and the recording of the key happen atomically, so exactly one of the
\* two calls returns false.
C22_ExactlyOneThreadAccepts ==
    \A t, u \in Threads :
        (/\ t # u
         /\ threads[t].pc = "done" /\ threads[u].pc = "done"
         /\ ExactKeyOf[threads[t].job] = ExactKeyOf[threads[u].job]
         /\ ~ExistsExternally(job_exists_fn, threads[t].job)
         /\ ~ExistsExternally(job_exists_fn, threads[u].job))
            => threads[t].result # threads[u].result

\* the words of a text as simhash sees them
WordsOf(text) == Split(normalize_text(text))

\* how many of the words, counted with repetition, have bit i set in their hash
WordsWithBit(words, i) == Cardinality({n \in 1..Len(words) : i \in md5_low64(words[n])})

\* the whitespace-separated tokens of the text in reverse order
ReverseWords(text) ==
    LET ws == Split(text) IN JoinSpace([n \in 1..Len(ws) |-> ws[Len(ws) + 1 - n]])

\* str.upper() on the model's letters
UpperChar(c) ==
    IF \E i \in 1..Len(LowerChars) : LowerChars[i] = c
    THEN UpperChars[CHOOSE i \in 1..Len(LowerChars) : LowerChars[i] = c]
    ELSE c
Upper(text) == [i \in 1..Len(text) |-> UpperChar(text[i])]

\* the text with a full stop after every character that is not whitespace
RECURSIVE Punctuated(_)
Punctuated(text) ==
    IF text = <<>> THEN <<>>
    ELSE IF IsSpace(Head(text)) THEN <<Head(text)>> \o Punctuated(Tail(text))
    ELSE <<Head(text), ".">> \o Punctuated(Tail(text))

Count(cond) == IF cond THEN 1 ELSE 0

\* C24: for a non-excluded posting the match_reasons returned by Scorer.score are
\* all keyword reasons in the keyword scorer's order, followed by a "High
\* semantic similarity" reason iff vector_score > 0.6 (strictly), followed by
\* "Recently posted" iff recency_score > 0.7 (strictly); with the neutral
\* provider the semantic reason never appears.
C24_ReasonsInOrder ==
    Scored =>
        \A i \in 1..Len(slast.jobs) :
            ~Excluded(profile, slast.jobs[i]) =>
                LET reasons == slast.all[i].match_reasons
                    kw == slast.keyword[i].reasons
                    semantic == RLt(Rat(6, 10), slast.all[i].vector_score)
                    recent == RLt(Rat(7, 10), slast.all[i].recency_score)
                IN /\ Len(reasons) = Len(kw) + Count(semantic) + Count(recent)
                   /\ SubSeq(reasons, 1, Len(kw)) = kw
                   /\ semantic => reasons[Len(kw) + 1].kind = "High semantic similarity"
                   /\ recent => reasons[Len(reasons)].kind = "Recently posted"
                   /\ Cardinality(ReasonsOfKind(reasons, "High semantic similarity"))
                          = Count(semantic)
                   /\ Cardinality(ReasonsOfKind(reasons, "Recently posted")) = Count(recent)
                   /\ embedding_provider.class = "NoEmbeddingProvider"
                          => ReasonsOfKind(reasons, "High semantic similarity") = {}

\* C24 happens: J5 under P1 with a working provider has vector score 0.75 and
\* recency 1.0: its keyword reasons are followed by the semantic reason and then
\* by "Recently posted"
C24_Witness ==
    /\ slast.op = "score"
    /\ slast.jobs = <<"J5">>
    /\ profile = P1
    /\ slast.all[1].vector_score = Rat(3, 4)
    /\ slast.all[1].recency_score = ROne
    /\ slast.keyword[1].reasons # <<>>
    /\ Len(slast.all[1].match_reasons) = Len(slast.keyword[1].reasons) + 2
    /\ slast.all[1].match_reasons[Len(slast.keyword[1].reasons) + 1].kind
           = "High semantic similarity"
    /\ slast.all[1].match_reasons[Len(slast.keyword[1].reasons) + 2].kind
           = "Recently posted"

\* C25: an is_duplicate call that returns true leaves the session state
\* unchanged, whichever of the three checks produced the verdict: neither the
\* seen exact-key set nor the fuzzy-key -> fingerprint map is modified, so a
\* rejected posting's exact key and fingerprint are never recorded.  Over the
\* calls of one dedupe, only the accepted postings leave keys.
C25_RejectionLeavesStateUnchanged ==
    [][/\ (dlast'.op = "is_duplicate" /\ dlast'.calls[1].result)
            => (seen_ids' = seen_ids /\ seen_hashes' = seen_hashes)
       /\ dlast'.op \in {"is_duplicate", "dedupe"}
            => /\ seen_ids' = seen_ids \cup {ExactKeyOf[j] : j \in AcceptedIn(dlast'.calls)}
               /\ DOMAIN seen_hashes'
                     = DOMAIN seen_hashes \cup {FuzzyKeyOf[j] : j \in AcceptedIn(dlast'.calls)}
               /\ AcceptedIn(dlast'.calls) = {} => seen_hashes' = seen_hashes]_vars

\* C25 happens: J4 was rejected by the fuzzy check alone, against the fingerprint
\* of J1; the map still holds the fingerprint of J1 and the exact key of J4 is
\* not in the seen-set
C25_Witness ==
    /\ dlast.op = "is_duplicate"
    /\ dlast.jobs = <<"J4">>
    /\ dlast.calls[1].result
    /\ ExactKeyOf["J4"] \notin seen_ids
    /\ ~ExistsExternally(job_exists_fn, "J4")
    /\ seen_hashes[FuzzyKeyOf["J4"]] = ContentHashOf["J1"]
    /\ ContentHashOf["J1"] # ContentHashOf["J4"]
    /\ accepted = {"J1"}

\* calls i < k of one step were on the same posting, and call i returned True
RejectedAgain(calls, i, k) ==
    i < k /\ calls[i].job = calls[k].job /\ calls[i].result

\* no call between i and k accepted a posting with the fuzzy key of the posting of call i
NoneAcceptedBetween(calls, i, k) ==
    \A n \in (i + 1)..(k - 1) :
        calls[n].result \/ FuzzyKeyOf[calls[n].job] # FuzzyKeyOf[calls[i].job]

\* C26 as stated: once is_duplicate has returned true for a posting, every later
\* is_duplicate call on that same posting (no reset in between, same external
\* answers) also returns true, whatever other postings were checked in between.
\* Stated on the calls that one dedupe makes.
C26_VerdictsMonotonic ==
    [][dlast'.op = "dedupe" =>
        \A i, k \in 1..Len(dlast'.calls) :
            RejectedAgain(dlast'.calls, i, k) => dlast'.calls[k].result]_vars

\* C26, amended: once is_duplicate has returned true for a posting, every later
\* call on that same posting also returns true, whatever other postings were
\* checked in between, unless the verdict came from the fuzzy check alone and a
\* posting with the same fuzzy key was accepted in between.  Over any number of
\* calls: what makes a posting a duplicate is kept by every step that is not a
\* reset, the fuzzy reason as long as no posting of that fuzzy key is accepted.
C26_VerdictsMonotonicUnlessFuzzyReplaced ==
    [][dlast'.op \in {"is_duplicate", "dedupe"} =>
        /\ \A i, k \in 1..Len(dlast'.calls) :
              (/\ RejectedAgain(dlast'.calls, i, k)
               /\ \/ KnownOtherwise(dlast'.calls, i)
                  \/ NoneAcceptedBetween(dlast'.calls, i, k))
                  => dlast'.calls[k].result
        /\ \A j \in DedupJobs :
              /\ (KnownExactly(j) \/ KnownExternally(j))
                    => (ExactKeyOf[j] \in seen_ids' \/ ExistsExternally(job_exists_fn', j))
              /\ (/\ KnownFuzzily(j)
                  /\ FuzzyKeyOf[j] \notin {FuzzyKeyOf[a] : a \in AcceptedIn(dlast'.calls)})
                    => FuzzyMatch(similarity_threshold', seen_hashes', j)]_vars

\* C26 happens: J3 was accepted earlier; in dedupe([J3, J4, J3]) it is rejected by
\* its exact key, J4 is accepted under the same fuzzy key, and J3 is rejected again
C26_Witness ==
    /\ dlast.op = "dedupe"
    /\ dlast.jobs = RepeatList
    /\ dlast.calls = <<[job |-> "J3", result |-> TRUE], [job |-> "J4", result |-> FALSE],
                       [job |-> "J3", result |-> TRUE]>>
    /\ FuzzyKeyOf["J3"] = FuzzyKeyOf["J4"]
    /\ seen_hashes[FuzzyKeyOf["J3"]] = ContentHashOf["J4"]

\* dedupe on a newly constructed Deduplicator with the current threshold and
\* external check: the list it returns
DedupeFresh(jobs) ==
    dedupe(similarity_threshold, job_exists_fn, NewSession.seen_ids,
           NewSession.seen_hashes, jobs).unique

\* C27: dedupe is idempotent across fresh sessions: for every list L and a fixed
\* external existence check, running dedupe on the result of dedupe(L) with a
\* freshly constructed (or reset) Deduplicator returns that result unchanged.
C27_DedupeIdempotentWhenFresh ==
    [][(dlast'.op = "dedupe" /\ seen_ids = {} /\ seen_hashes = EmptyDict)
          => DedupeFresh(dlast'.unique) = dlast'.unique]_vars

\* C27 happens: a fresh Deduplicator was given [J3, J4, J3] and returned
\* [J3, J4], a list that a second fresh run leaves as it is
C27_Witness ==
    /\ dlast.op = "dedupe"
    /\ dlast.jobs = RepeatList
    /\ dlast.unique = <<"J3", "J4">>
    /\ accepted = {"J3", "J4"}
    /\ DedupeFresh(dlast.unique) = dlast.unique
    /\ DedupeFresh(dlast.jobs) = dlast.unique

\* C28: two postings with different (company, source_system, source_job_id)
\* tuples never have the same exact key (nor the same string hashed into
\* JobPosting.id), so the exact-key check never rejects a posting because of a
\* posting with a different identity tuple, for all field values including ones
\* containing ':'.
C28_ExactKeyIdentifiesTuple ==
    [][dlast'.op \in {"is_duplicate", "dedupe"} =>
        \A i \in 1..Len(dlast'.calls) :
            LET job == dlast'.calls[i].job
                before == accepted \cup AcceptedIn(EarlierCalls(dlast'.calls, i))
            IN /\ \A e \in before :
                     Identity(e) # Identity(job)
                         => /\ ExactKeyOf[e] # ExactKeyOf[job]
                            /\ IdentityKey(Posting[e]) # IdentityKey(Posting[job])
               /\ (/\ dlast'.calls[i].result
                   /\ ~ExistsExternally(job_exists_fn, job)
                   /\ \A e \in before : FuzzyKeyOf[e] # FuzzyKeyOf[job])
                     => \E e \in before : Identity(e) = Identity(job)]_vars

\* C29: Scorer.score takes the all-zero exclusion short-circuit if and only if
\* a must-not phrase matches: the keyword scorer returns 0.0 together with a
\* non-empty reason list only for excluded postings, so a non-excluded posting
\* whose keyword score is 0.0 still has its recency and vector signals computed
\* and gets final_score = vector_weight*vector_score + recency_weight*recency_score.
C29_ShortCircuitIffExcluded ==
    /\ \A p \in Profiles : \A j \in ScoreJobs :
           (REq(KeywordScoreOf[p][j].score, RZero) /\ KeywordScoreOf[p][j].reasons # <<>>)
               <=> Excluded(p, j)
    /\ slast.op = "score" =>
           LET job == slast.jobs[1]
               s == slast.all[1]
           IN /\ slast.events = <<"keyword">> <=> Excluded(profile, job)
              /\ Excluded(profile, job) =>
                     /\ REq(s.final_score, RZero)
                     /\ REq(s.keyword_score, RZero)
                     /\ s.match_reasons = slast.keyword[1].reasons
              /\ (~Excluded(profile, job) /\ REq(slast.keyword[1].score, RZero)) =>
                     /\ SubSeq(slast.events, 1, 2) = <<"keyword", "recency">>
                     /\ REq(s.recency_score, RecencyScoreOf[job])
                     /\ embedding_provider.class = "NoEmbeddingProvider"
                            => REq(s.vector_score, RHalf)
                     /\ REq(s.final_score,
                            RAdd(RMul(profile.vector_weight, s.vector_score),
                                 RMul(profile.recency_weight, s.recency_score)))

C29_Witness ==
    /\ slast.op = "score"
    /\ ~Excluded(profile, slast.jobs[1])
    /\ REq(slast.keyword[1].score, RZero)
    /\ slast.keyword[1].reasons = <<>>
    /\ RLt(RZero, slast.all[1].final_score)
    /\ RLt(RZero, slast.all[1].recency_score)

\* C30: HTTPClient.get retries a request that fails with a transport error
\* (httpx.TransportError): the request is attempted up to 3 times in total,
\* each attempt first passing through the rate limiter, and the failure is
\* reported to the caller only after the third failed attempt.
C30_TransportErrorRetriedThreeTimes ==
    /\ http.attempt <= stop_after_attempt
    /\ http.requests <= http.acquires
    /\ (http.pc = "done" /\ http.transport # "none"
            /\ IsInstance(http.transport, "TransportError"))
           => /\ http.attempt = stop_after_attempt
              /\ http.requests = stop_after_attempt
              /\ http.acquires = stop_after_attempt

====
